---- MODULE Spec2Model ----
(***************************************************************************)
(* TermTrack: the map viewport (pan / zoom / reset / recenter), the static *)
(* layer cache, the aircraft overlay and the feed merge of the terminal    *)
(* aircraft tracker, modelled from src/ui/map/map.go, src/sbs/sbs.go and   *)
(* the application model (the last program listed in                       *)
(* src/ui/footer/footer.go, lines 281-524, with src/unnamed/part_001).     *)
(*                                                                         *)
(* float64 values are modelled as exact rationals.  Every constant of the  *)
(* program (0.1, 1.2, 2.0, 25.5, 1.9, 1e-6) and every extent of the model  *)
(* has only the primes 2, 3, 5, 17 and 19 in numerator and denominator, so *)
(* a value is  sign * magnitude / (2^a 3^b 5^c 17^d 19^e)  with an         *)
(* arbitrary-precision magnitude (TLC integers are 32 bit, and eighteen    *)
(* zoom-outs from the recentred view need more).                           *)
(***************************************************************************)
EXTENDS Integers, Sequences, FiniteSets, TLC

\* ------------------------------------------------------------------------
\* Arbitrary-precision naturals: little-endian digit sequences, no leading
\* zero digit, << >> is 0.
\* ------------------------------------------------------------------------
Base == 100 * 100

Primes == <<2, 3, 5, 17, 19>>

NoExp == <<0, 0, 0, 0, 0>>

RECURSIVE NFromInt(_)
NFromInt(i) == IF i = 0 THEN << >> ELSE <<i % Base>> \o NFromInt(i \div Base)

RECURSIVE NToInt(_)
NToInt(a) == IF a = << >> THEN 0 ELSE Head(a) + Base * NToInt(Tail(a))

RECURSIVE NTrim(_)
NTrim(a) ==
    IF a = << >> THEN << >>
    ELSE IF a[Len(a)] = 0 THEN NTrim(SubSeq(a, 1, Len(a) - 1))
    ELSE a

RECURSIVE NAddC(_, _, _)
NAddC(a, b, c) ==
    IF a = << >> /\ b = << >> THEN (IF c = 0 THEN << >> ELSE <<c>>)
    ELSE LET da == IF a = << >> THEN 0 ELSE Head(a)
             db == IF b = << >> THEN 0 ELSE Head(b)
             s  == da + db + c
         IN  <<s % Base>> \o NAddC(IF a = << >> THEN a ELSE Tail(a),
                                   IF b = << >> THEN b ELSE Tail(b),
                                   s \div Base)

NAdd(a, b) == NAddC(a, b, 0)

RECURSIVE NCmpAt(_, _, _)
NCmpAt(a, b, i) ==
    IF i = 0 THEN 0
    ELSE IF a[i] < b[i] THEN -1
    ELSE IF a[i] > b[i] THEN 1
    ELSE NCmpAt(a, b, i - 1)

\* -1, 0, 1 as a < b, a = b, a > b
NCmp(a, b) ==
    IF Len(a) < Len(b) THEN -1
    ELSE IF Len(a) > Len(b) THEN 1
    ELSE NCmpAt(a, b, Len(a))

RECURSIVE NSubB(_, _, _)
NSubB(a, b, br) ==
    IF a = << >> THEN << >>
    ELSE LET db == IF b = << >> THEN 0 ELSE Head(b)
             d  == Head(a) - db - br
         IN  <<IF d < 0 THEN d + Base ELSE d>>
             \o NSubB(Tail(a), IF b = << >> THEN b ELSE Tail(b),
                      IF d < 0 THEN 1 ELSE 0)

\* a - b for a >= b
NSub(a, b) == NTrim(NSubB(a, b, 0))

RECURSIVE NMulSC(_, _, _)
NMulSC(a, k, c) ==
    IF a = << >> THEN (IF c = 0 THEN << >> ELSE <<c>>)
    ELSE LET s == Head(a) * k + c
         IN  <<s % Base>> \o NMulSC(Tail(a), k, s \div Base)

\* a * k for a small k (0 <= k < Base)
NMulS(a, k) == IF k = 0 THEN << >> ELSE NMulSC(a, k, 0)

RECURSIVE NMul(_, _)
NMul(a, b) ==
    IF a = << >> \/ b = << >> THEN << >>
    ELSE LET rest == NMul(Tail(a), b)
         IN  NAdd(NMulS(b, Head(a)),
                  IF rest = << >> THEN rest ELSE <<0>> \o rest)

\* short division by a small k, most significant digit first:
\* [q |-> a \div k, r |-> a % k]
RECURSIVE NDivModS(_, _)
NDivModS(a, k) ==
    IF a = << >> THEN [q |-> << >>, r |-> 0]
    ELSE LET hi  == NDivModS(Tail(a), k)
             cur == hi.r * Base + Head(a)
         IN  [q |-> NTrim(<<cur \div k>> \o hi.q), r |-> cur % k]

RECURSIVE NMulPow(_, _, _)
NMulPow(a, p, k) == IF k = 0 THEN a ELSE NMulPow(NMulS(a, p), p, k - 1)

RECURSIVE NDivPow(_, _, _)
NDivPow(a, p, k) == IF k = 0 THEN a ELSE NDivPow(NDivModS(a, p).q, p, k - 1)

\* ------------------------------------------------------------------------
\* Exact rationals  (-1)^neg * m / (2^e[1] 3^e[2] 5^e[3] 17^e[4] 19^e[5]),
\* in lowest terms with respect to the five primes, zero never negative.
\* ------------------------------------------------------------------------
RECURSIVE QReduce(_, _, _)
QReduce(m, e, i) ==
    IF i > Len(Primes) THEN [m |-> m, e |-> e]
    ELSE IF m # << >> /\ e[i] > 0 /\ NDivModS(m, Primes[i]).r = 0
         THEN QReduce(NDivModS(m, Primes[i]).q, [e EXCEPT ![i] = @ - 1], i)
         ELSE QReduce(m, e, i + 1)

QNorm(neg, m, e) ==
    IF m = << >> THEN [neg |-> FALSE, m |-> << >>, e |-> NoExp]
    ELSE LET r == QReduce(m, e, 1) IN [neg |-> neg, m |-> r.m, e |-> r.e]

QInt(i) == [neg |-> i < 0, m |-> NFromInt(IF i < 0 THEN -i ELSE i), e |-> NoExp]

\* n / d for integers n and a d > 0 whose primes are among Primes
RECURSIVE QStrip(_, _, _)
QStrip(d, e, i) ==
    IF i > Len(Primes) THEN e
    ELSE IF d % Primes[i] = 0
         THEN QStrip(d \div Primes[i], [e EXCEPT ![i] = @ + 1], i)
         ELSE QStrip(d, e, i + 1)

QFrac(n, d) ==
    QNorm(n < 0, NFromInt(IF n < 0 THEN -n ELSE n), QStrip(d, NoExp, 1))

QZero == QInt(0)

QNeg(a) == IF a.m = << >> THEN a ELSE [a EXCEPT !.neg = ~@]

Max(i, j) == IF i > j THEN i ELSE j

MaxExp(a, b) ==
    <<Max(a[1], b[1]), Max(a[2], b[2]), Max(a[3], b[3]), Max(a[4], b[4]),
      Max(a[5], b[5])>>

AddExp(a, b) ==
    <<a[1] + b[1], a[2] + b[2], a[3] + b[3], a[4] + b[4], a[5] + b[5]>>

RECURSIVE QScaleFrom(_, _, _, _)
QScaleFrom(m, from, to, i) ==
    IF i > Len(Primes) THEN m
    ELSE QScaleFrom(NMulPow(m, Primes[i], to[i] - from[i]), from, to, i + 1)

\* the magnitude of a over the denominator with exponents e (e >= a.e)
QScale(a, e) == QScaleFrom(a.m, a.e, e, 1)

QAdd(a, b) ==
    LET e  == MaxExp(a.e, b.e)
        ma == QScale(a, e)
        mb == QScale(b, e)
    IN  IF a.neg = b.neg THEN QNorm(a.neg, NAdd(ma, mb), e)
        ELSE IF NCmp(ma, mb) >= 0 THEN QNorm(a.neg, NSub(ma, mb), e)
        ELSE QNorm(b.neg, NSub(mb, ma), e)

QSub(a, b) == QAdd(a, QNeg(b))

QMul(a, b) ==
    QNorm(a.neg # b.neg, NMul(a.m, b.m), AddExp(a.e, b.e))

\* -1, 0, 1 as a < b, a = b, a > b
QCmp(a, b) ==
    LET d == QSub(a, b)
    IN  IF d.m = << >> THEN 0 ELSE IF d.neg THEN -1 ELSE 1

QLess(a, b) == QCmp(a, b) < 0

QLeq(a, b) == QCmp(a, b) <= 0

\* the exponents of the primes in a magnitude, and what is left of it
RECURSIVE NFactor(_, _, _)
NFactor(m, e, i) ==
    IF i > Len(Primes) THEN [m |-> m, e |-> e]
    ELSE IF NDivModS(m, Primes[i]).r = 0
         THEN NFactor(NDivModS(m, Primes[i]).q, [e EXCEPT ![i] = @ + 1], i)
         ELSE NFactor(m, e, i + 1)

\* 1 / b for b # 0 whose magnitude has no other prime than Primes
QInv(b) ==
    LET f == NFactor(b.m, NoExp, 1)
    IN  [neg |-> b.neg, m |-> QScaleFrom(<<1>>, NoExp, b.e, 1), e |-> f.e]

QSmooth(b) == b.m # << >> /\ NFactor(b.m, NoExp, 1).m = <<1>>

QDiv(a, b) == QMul(a, QInv(b))

\* Go's int(f): the integer part, truncated toward zero
RECURSIVE NFloorBy(_, _, _)
NFloorBy(m, e, i) ==
    IF i > Len(Primes) THEN m
    ELSE NFloorBy(NDivPow(m, Primes[i], e[i]), e, i + 1)

QTrunc(a) ==
    LET t == NToInt(NFloorBy(a.m, a.e, 1)) IN IF a.neg THEN -t ELSE t

\* the mathematical floor
QFloor(a) ==
    LET t == QTrunc(a)
    IN  IF a.neg /\ QInt(t) # a THEN t - 1 ELSE t

\* ------------------------------------------------------------------------
\* Program constants
\* ------------------------------------------------------------------------
panFactor == QFrac(1, 10)

zoomFactor == QFrac(6, 5)

\* the 25.5x of SetViewToLocation
autoZoom == QFrac(51, 2)

charAspect == QFrac(19, 10)

\* the 1e-6 nudge of project
epsilon == QFrac(1, 1000 * 1000)

\* the polygon pass draws every third vertex
step == 3

defaultWidth == 80

defaultHeight == 23

\* ------------------------------------------------------------------------
\* Bounds of the model
\* ------------------------------------------------------------------------
\* keys, feed lines and window-size messages accepted in one session
MaxKeys == 2

MaxLines == 2

MaxResizes == 1

\* consecutive pans looked ahead from every view
PanRun == 12

\* ------------------------------------------------------------------------
\* Geometry handed over by the loaders: polygons with the bounding box of
\* their shapefile record, and airport points
\* ------------------------------------------------------------------------
Pt(x, y) == [X |-> QInt(x), Y |-> QInt(y)]

Box(minX, minY, maxX, maxY) ==
    [MinX |-> minX, MinY |-> minY, MaxX |-> maxX, MaxY |-> maxY]

mapPolygons ==
    << [Points |-> <<Pt(-8, 4), Pt(-6, 4), Pt(-4, 2), Pt(0, 0), Pt(2, -2),
                     Pt(4, -4), Pt(8, -4)>>,
        Box |-> Box(QInt(-8), QInt(-4), QInt(8), QInt(4))],
       [Points |-> <<Pt(2, 2), Pt(3, 2), Pt(3, 3), Pt(2, 3)>>,
        Box |-> Box(QInt(2), QInt(2), QInt(3), QInt(3))] >>

airportPoints == <<Pt(0, 0), Pt(-3, 1)>>

\* loadMapData: the union bounding box of all polygon vertices
RECURSIVE boundsOfPoints(_, _, _)
boundsOfPoints(pts, i, b) ==
    IF i > Len(pts) THEN b
    ELSE LET p == pts[i]
         IN  boundsOfPoints(pts, i + 1,
                 Box(IF QLess(p.X, b.MinX) THEN p.X ELSE b.MinX,
                     IF QLess(p.Y, b.MinY) THEN p.Y ELSE b.MinY,
                     IF QLess(b.MaxX, p.X) THEN p.X ELSE b.MaxX,
                     IF QLess(b.MaxY, p.Y) THEN p.Y ELSE b.MaxY))

RECURSIVE boundsOfPolygons(_, _, _)
boundsOfPolygons(polys, i, b) ==
    IF i > Len(polys) THEN b
    ELSE boundsOfPolygons(polys, i + 1, boundsOfPoints(polys[i].Points, 1, b))

loadMapData ==
    boundsOfPolygons(mapPolygons, 1,
        Box(QInt(1000 * 1000 * 1000), QInt(1000 * 1000 * 1000),
            QInt(-(1000 * 1000 * 1000)), QInt(-(1000 * 1000 * 1000))))

\* no grid cached yet (a nil slice)
NilGrid == << >>

\* mapview.New.  aircraft is the table the map points at: "own" is the
\* empty table New makes, "master" the application's table once
\* UpdateAircraft has handed it over (a Go map is a reference).
New ==
    [width |-> defaultWidth, height |-> defaultHeight,
     aircraft |-> "own",
     originalBounds |-> loadMapData, viewBounds |-> loadMapData,
     cachedStaticGrid |-> NilGrid, needsRedraw |-> TRUE]

\* ------------------------------------------------------------------------
\* Viewport operations of the map model
\* ------------------------------------------------------------------------
UpdateAircraft(m) == [m EXCEPT !.aircraft = "master"]

\* a recenter that sizes the new view from the current one
SetViewToLocationOfView(m, lat, lon) ==
    LET origWidth     == QSub(m.viewBounds.MaxX, m.viewBounds.MinX)
        origHeight    == QSub(m.viewBounds.MaxY, m.viewBounds.MinY)
        origGeoAspect == QDiv(origWidth, origHeight)
        newGeoWidth   == QDiv(origWidth, autoZoom)
        newGeoHeight  == QDiv(newGeoWidth, origGeoAspect)
        halfWidth     == QDiv(newGeoWidth, QInt(2))
        halfHeight    == QDiv(newGeoHeight, QInt(2))
    IN  [m EXCEPT !.viewBounds = Box(QSub(lon, halfWidth), QSub(lat, halfHeight),
                                     QAdd(lon, halfWidth), QAdd(lat, halfHeight)),
                  !.needsRedraw = TRUE]

\* a recenter on a rectangle as high as it is wide
SetViewToLocationSquare(m, lat, lon) ==
    LET origWidth     == QSub(m.originalBounds.MaxX, m.originalBounds.MinX)
        newGeoWidth   == QDiv(origWidth, autoZoom)
        halfWidth     == QDiv(newGeoWidth, QInt(2))
    IN  [m EXCEPT !.viewBounds = Box(QSub(lon, halfWidth), QSub(lat, halfWidth),
                                     QAdd(lon, halfWidth), QAdd(lat, halfWidth)),
                  !.needsRedraw = TRUE]

SetViewToLocation(m, lat, lon) ==
    LET origWidth     == QSub(m.originalBounds.MaxX, m.originalBounds.MinX)
        origHeight    == QSub(m.originalBounds.MaxY, m.originalBounds.MinY)
        origGeoAspect == QDiv(origWidth, origHeight)
        newGeoWidth   == QDiv(origWidth, autoZoom)
        newGeoHeight  == QDiv(newGeoWidth, origGeoAspect)
        halfWidth     == QDiv(newGeoWidth, QInt(2))
        halfHeight    == QDiv(newGeoHeight, QInt(2))
    IN  [m EXCEPT !.viewBounds = Box(QSub(lon, halfWidth), QSub(lat, halfHeight),
                                     QAdd(lon, halfWidth), QAdd(lat, halfHeight)),
                  !.needsRedraw = TRUE]

\* a clamp that restores the size of the original extent but not its place
zoomKeepCenter(m, factor) ==
    LET centerX   == QDiv(QAdd(m.viewBounds.MinX, m.viewBounds.MaxX), QInt(2))
        centerY   == QDiv(QAdd(m.viewBounds.MinY, m.viewBounds.MaxY), QInt(2))
        width     == QSub(m.viewBounds.MaxX, m.viewBounds.MinX)
        height    == QSub(m.viewBounds.MaxY, m.viewBounds.MinY)
        origW     == QSub(m.originalBounds.MaxX, m.originalBounds.MinX)
        origH     == QSub(m.originalBounds.MaxY, m.originalBounds.MinY)
        over      == QLess(origW, QMul(width, factor))
                     \/ QLess(origH, QMul(height, factor))
        newWidth  == IF over THEN origW ELSE QMul(width, factor)
        newHeight == IF over THEN origH ELSE QMul(height, factor)
    IN  [m EXCEPT !.viewBounds =
                      Box(QSub(centerX, QDiv(newWidth, QInt(2))),
                          QSub(centerY, QDiv(newHeight, QInt(2))),
                          QAdd(centerX, QDiv(newWidth, QInt(2))),
                          QAdd(centerY, QDiv(newHeight, QInt(2)))),
                  !.needsRedraw = TRUE]

\* a zoom that leaves the view alone where the code resets it
zoomNoReset(m, factor) ==
    LET centerX   == QDiv(QAdd(m.viewBounds.MinX, m.viewBounds.MaxX), QInt(2))
        centerY   == QDiv(QAdd(m.viewBounds.MinY, m.viewBounds.MaxY), QInt(2))
        width     == QSub(m.viewBounds.MaxX, m.viewBounds.MinX)
        height    == QSub(m.viewBounds.MaxY, m.viewBounds.MinY)
        newWidth  == QMul(width, factor)
        newHeight == QMul(height, factor)
    IN  IF QLess(QSub(m.originalBounds.MaxX, m.originalBounds.MinX), newWidth)
           \/ QLess(QSub(m.originalBounds.MaxY, m.originalBounds.MinY), newHeight)
        THEN [m EXCEPT !.needsRedraw = TRUE]
        ELSE [m EXCEPT !.viewBounds =
                           Box(QSub(centerX, QDiv(newWidth, QInt(2))),
                               QSub(centerY, QDiv(newHeight, QInt(2))),
                               QAdd(centerX, QDiv(newWidth, QInt(2))),
                               QAdd(centerY, QDiv(newHeight, QInt(2)))),
                       !.needsRedraw = TRUE]

\* a zoom that holds the south-west corner of the view in place
zoomFromCorner(m, factor) ==
    LET width     == QSub(m.viewBounds.MaxX, m.viewBounds.MinX)
        height    == QSub(m.viewBounds.MaxY, m.viewBounds.MinY)
        newWidth  == QMul(width, factor)
        newHeight == QMul(height, factor)
    IN  IF QLess(QSub(m.originalBounds.MaxX, m.originalBounds.MinX), newWidth)
           \/ QLess(QSub(m.originalBounds.MaxY, m.originalBounds.MinY), newHeight)
        THEN [m EXCEPT !.viewBounds = m.originalBounds, !.needsRedraw = TRUE]
        ELSE [m EXCEPT !.viewBounds =
                           Box(m.viewBounds.MinX, m.viewBounds.MinY,
                               QAdd(m.viewBounds.MinX, newWidth),
                               QAdd(m.viewBounds.MinY, newHeight)),
                       !.needsRedraw = TRUE]

\* a clamp that restores the original extent and leaves the flag as it
\* finds it
zoomResetSilent(m, factor) ==
    LET centerX   == QDiv(QAdd(m.viewBounds.MinX, m.viewBounds.MaxX), QInt(2))
        centerY   == QDiv(QAdd(m.viewBounds.MinY, m.viewBounds.MaxY), QInt(2))
        width     == QSub(m.viewBounds.MaxX, m.viewBounds.MinX)
        height    == QSub(m.viewBounds.MaxY, m.viewBounds.MinY)
        newWidth  == QMul(width, factor)
        newHeight == QMul(height, factor)
    IN  IF QLess(QSub(m.originalBounds.MaxX, m.originalBounds.MinX), newWidth)
           \/ QLess(QSub(m.originalBounds.MaxY, m.originalBounds.MinY), newHeight)
        THEN [m EXCEPT !.viewBounds = m.originalBounds]
        ELSE [m EXCEPT !.viewBounds =
                           Box(QSub(centerX, QDiv(newWidth, QInt(2))),
                               QSub(centerY, QDiv(newHeight, QInt(2))),
                               QAdd(centerX, QDiv(newWidth, QInt(2))),
                               QAdd(centerY, QDiv(newHeight, QInt(2)))),
                       !.needsRedraw = TRUE]

zoom(m, factor) ==
    LET centerX   == QDiv(QAdd(m.viewBounds.MinX, m.viewBounds.MaxX), QInt(2))
        centerY   == QDiv(QAdd(m.viewBounds.MinY, m.viewBounds.MaxY), QInt(2))
        width     == QSub(m.viewBounds.MaxX, m.viewBounds.MinX)
        height    == QSub(m.viewBounds.MaxY, m.viewBounds.MinY)
        newWidth  == QMul(width, factor)
        newHeight == QMul(height, factor)
    IN  IF QLess(QSub(m.originalBounds.MaxX, m.originalBounds.MinX), newWidth)
           \/ QLess(QSub(m.originalBounds.MaxY, m.originalBounds.MinY), newHeight)
        THEN [m EXCEPT !.viewBounds = m.originalBounds, !.needsRedraw = TRUE]
        ELSE [m EXCEPT !.viewBounds =
                           Box(QSub(centerX, QDiv(newWidth, QInt(2))),
                               QSub(centerY, QDiv(newHeight, QInt(2))),
                               QAdd(centerX, QDiv(newWidth, QInt(2))),
                               QAdd(centerY, QDiv(newHeight, QInt(2)))),
                       !.needsRedraw = TRUE]

\* the view after the pan, and whether it lies within the original extent
within(vb, bounds) ==
    /\ QLeq(bounds.MinX, vb.MinX) /\ QLeq(vb.MaxX, bounds.MaxX)
    /\ QLeq(bounds.MinY, vb.MinY) /\ QLeq(vb.MaxY, bounds.MaxY)

\* a pan that stops at the edge of the original extent
panClamped(m, dx, dy) ==
    LET width  == QSub(m.viewBounds.MaxX, m.viewBounds.MinX)
        height == QSub(m.viewBounds.MaxY, m.viewBounds.MinY)
        panX   == QMul(width, dx)
        panY   == QMul(height, dy)
    IN  IF within(Box(QAdd(m.viewBounds.MinX, panX),
                      QAdd(m.viewBounds.MinY, panY),
                      QAdd(m.viewBounds.MaxX, panX),
                      QAdd(m.viewBounds.MaxY, panY)), m.originalBounds)
        THEN [m EXCEPT !.viewBounds = Box(QAdd(m.viewBounds.MinX, panX),
                                         QAdd(m.viewBounds.MinY, panY),
                                         QAdd(m.viewBounds.MaxX, panX),
                                         QAdd(m.viewBounds.MaxY, panY)),
                       !.needsRedraw = TRUE]
        ELSE [m EXCEPT !.needsRedraw = TRUE]

pan(m, dx, dy) ==
    LET width  == QSub(m.viewBounds.MaxX, m.viewBounds.MinX)
        height == QSub(m.viewBounds.MaxY, m.viewBounds.MinY)
        panX   == QMul(width, dx)
        panY   == QMul(height, dy)
    IN  [m EXCEPT !.viewBounds = Box(QAdd(m.viewBounds.MinX, panX),
                                     QAdd(m.viewBounds.MinY, panY),
                                     QAdd(m.viewBounds.MaxX, panX),
                                     QAdd(m.viewBounds.MaxY, panY)),
                  !.needsRedraw = TRUE]

\* Model.Update of the map: window-size and key messages
WindowSize(w, h) == [type |-> "WindowSizeMsg", Width |-> w, Height |-> h, key |-> ""]

Key(k) == [type |-> "KeyMsg", Width |-> 0, Height |-> 0, key |-> k]

\* a resize that stores the two dimensions the wrong way round
MapUpdateTransposed(m, msg) ==
    IF msg.type = "WindowSizeMsg"
    THEN [m EXCEPT !.width = msg.Height, !.height = msg.Width,
                   !.needsRedraw = TRUE]
    ELSE IF msg.type = "KeyMsg"
    THEN CASE msg.key \in {"k", "up"}    -> pan(m, QZero, panFactor)
           [] msg.key \in {"l", "down"}  -> pan(m, QZero, QNeg(panFactor))
           [] msg.key \in {"j", "left"}  -> pan(m, QNeg(panFactor), QZero)
           [] msg.key \in {";", "right"} -> pan(m, panFactor, QZero)
           [] msg.key = "K" -> zoom(m, QDiv(QInt(1), zoomFactor))
           [] msg.key = "L" -> zoom(m, zoomFactor)
           [] msg.key = "r" -> [m EXCEPT !.viewBounds = m.originalBounds,
                                        !.needsRedraw = TRUE]
           [] OTHER -> m
    ELSE m

\* the two zoom keys bound the wrong way round
MapUpdateSwapped(m, msg) ==
    IF msg.type = "WindowSizeMsg"
    THEN [m EXCEPT !.width = msg.Width, !.height = msg.Height,
                   !.needsRedraw = TRUE]
    ELSE IF msg.type = "KeyMsg"
    THEN CASE msg.key \in {"k", "up"}    -> pan(m, QZero, panFactor)
           [] msg.key \in {"l", "down"}  -> pan(m, QZero, QNeg(panFactor))
           [] msg.key \in {"j", "left"}  -> pan(m, QNeg(panFactor), QZero)
           [] msg.key \in {";", "right"} -> pan(m, panFactor, QZero)
           [] msg.key = "K" -> zoom(m, zoomFactor)
           [] msg.key = "L" -> zoom(m, QDiv(QInt(1), zoomFactor))
           [] msg.key = "r" -> [m EXCEPT !.viewBounds = m.originalBounds,
                                        !.needsRedraw = TRUE]
           [] OTHER -> m
    ELSE m

MapUpdate(m, msg) ==
    IF msg.type = "WindowSizeMsg"
    THEN [m EXCEPT !.width = msg.Width, !.height = msg.Height,
                   !.needsRedraw = TRUE]
    ELSE IF msg.type = "KeyMsg"
    THEN CASE msg.key \in {"k", "up"}    -> pan(m, QZero, panFactor)
           [] msg.key \in {"l", "down"}  -> pan(m, QZero, QNeg(panFactor))
           [] msg.key \in {"j", "left"}  -> pan(m, QNeg(panFactor), QZero)
           [] msg.key \in {";", "right"} -> pan(m, panFactor, QZero)
           [] msg.key = "K" -> zoom(m, QDiv(QInt(1), zoomFactor))
           [] msg.key = "L" -> zoom(m, zoomFactor)
           [] msg.key = "r" -> [m EXCEPT !.viewBounds = m.originalBounds,
                                        !.needsRedraw = TRUE]
           [] OTHER -> m
    ELSE m

\* a zoom level taken from the Y axis
GetZoomLevelOfHeight(m) ==
    IF m.viewBounds.MaxY = m.viewBounds.MinY THEN QInt(1)
    ELSE QDiv(QSub(m.originalBounds.MaxY, m.originalBounds.MinY),
              QSub(m.viewBounds.MaxY, m.viewBounds.MinY))

\* GetZoomLevel: the quotient is formed only for a non-zero width
GetZoomLevel(m) ==
    IF m.viewBounds.MaxX = m.viewBounds.MinX THEN QInt(1)
    ELSE QDiv(QSub(m.originalBounds.MaxX, m.originalBounds.MinX),
              QSub(m.viewBounds.MaxX, m.viewBounds.MinX))

\* ------------------------------------------------------------------------
\* The feed decoder (package sbs)
\* ------------------------------------------------------------------------
\* a numeric field of a line: ok is whether strconv.ParseFloat accepts it
Num(v) == [ok |-> TRUE, v |-> v]

NotNum == [ok |-> FALSE, v |-> 0]

\* a line split at the commas: fields[0], the number of fields, the message
\* type fields[1], fields[4], and the fields the decoder reads
Line(head, n, msgType, icao, f10, f11, f12, f14, f15) ==
    [head |-> head, n |-> n, msgType |-> msgType, icao |-> icao, f10 |-> f10,
     f11 |-> f11, f12 |-> f12, f14 |-> f14, f15 |-> f15]

\* strings.TrimSpace on a sequence of characters
RECURSIVE TrimLeft(_)
TrimLeft(cs) ==
    IF cs # << >> /\ Head(cs) = " " THEN TrimLeft(Tail(cs)) ELSE cs

RECURSIVE TrimRight(_)
TrimRight(cs) ==
    IF cs # << >> /\ cs[Len(cs)] = " "
    THEN TrimRight(SubSeq(cs, 1, Len(cs) - 1)) ELSE cs

TrimSpace(cs) == TrimRight(TrimLeft(cs))

\* *Aircraft; nil is the nil pointer.  Callsign is a sequence of characters.
Aircraft(icao, callsign, lat, lon, speed, track) ==
    [nil |-> FALSE, ICAO |-> icao, Callsign |-> callsign, Lat |-> lat,
     Lon |-> lon, Speed |-> speed, Track |-> track]

NilAircraft ==
    [nil |-> TRUE, ICAO |-> "", Callsign |-> << >>, Lat |-> 0, Lon |-> 0,
     Speed |-> 0, Track |-> 0]

parseSbsLine(line) ==
    IF line.n < 11 \/ line.head # "MSG" THEN NilAircraft
    ELSE IF line.icao = "" THEN NilAircraft
    ELSE IF line.msgType \notin {"1", "3", "4"} THEN NilAircraft
    ELSE LET update ==
               Aircraft(line.icao,
                   IF line.msgType = "1" /\ line.n >= 11
                   THEN TrimSpace(line.f10) ELSE << >>,
                   IF line.msgType = "3" /\ line.n >= 16 /\ line.f14.ok
                   THEN line.f14.v ELSE 0,
                   IF line.msgType = "3" /\ line.n >= 16 /\ line.f15.ok
                   THEN line.f15.v ELSE 0,
                   IF line.msgType = "4" /\ line.n >= 14 /\ line.f11.ok
                   THEN line.f11.v ELSE 0,
                   IF line.msgType = "4" /\ line.n >= 14 /\ line.f12.ok
                   THEN line.f12.v ELSE 0)
         IN  IF update.Callsign # << >> \/ update.Lat # 0 \/ update.Speed # 0
             THEN update ELSE NilAircraft

\* ------------------------------------------------------------------------
\* The application model: merge of an update into the master table
\* ------------------------------------------------------------------------
\* the table as a function from the ICAO ids present to their records
EmptyTable == [id \in {} |-> NilAircraft]

\* a merge that makes room for a new aircraft by dropping the others
mergeAircraftEvict(table, update) ==
    IF update.nil THEN table
    ELSE IF update.ICAO \notin DOMAIN table
    THEN [id \in {update.ICAO} |-> update]
    ELSE LET ac == table[update.ICAO]
         IN  [table EXCEPT ![update.ICAO] =
                 [ac EXCEPT !.Callsign = IF update.Callsign # << >>
                                         THEN update.Callsign ELSE ac.Callsign,
                            !.Lat   = IF update.Lat # 0 /\ update.Lon # 0
                                      THEN update.Lat ELSE ac.Lat,
                            !.Lon   = IF update.Lat # 0 /\ update.Lon # 0
                                      THEN update.Lon ELSE ac.Lon,
                            !.Speed = IF update.Speed # 0
                                      THEN update.Speed ELSE ac.Speed,
                            !.Track = IF update.Track # 0
                                      THEN update.Track ELSE ac.Track]]

\* a merge that lets an empty or zero field of the update through
mergeAircraftErase(table, update) ==
    IF update.nil THEN table
    ELSE IF update.ICAO \notin DOMAIN table
    THEN [id \in DOMAIN table \cup {update.ICAO} |->
             IF id = update.ICAO THEN update ELSE table[id]]
    ELSE LET ac == table[update.ICAO]
         IN  [table EXCEPT ![update.ICAO] =
                 [ac EXCEPT !.Callsign = update.Callsign,
                            !.Lat   = IF update.Lat # 0 /\ update.Lon # 0
                                      THEN update.Lat ELSE ac.Lat,
                            !.Lon   = IF update.Lat # 0 /\ update.Lon # 0
                                      THEN update.Lon ELSE ac.Lon,
                            !.Speed = IF update.Speed # 0
                                      THEN update.Speed ELSE ac.Speed,
                            !.Track = IF update.Track # 0
                                      THEN update.Track ELSE ac.Track]]

mergeAircraft(table, update) ==
    IF update.nil THEN table
    ELSE IF update.ICAO \notin DOMAIN table
    THEN [id \in DOMAIN table \cup {update.ICAO} |->
             IF id = update.ICAO THEN update ELSE table[id]]
    ELSE LET ac == table[update.ICAO]
         IN  [table EXCEPT ![update.ICAO] =
                 [ac EXCEPT !.Callsign = IF update.Callsign # << >>
                                         THEN update.Callsign ELSE ac.Callsign,
                            !.Lat   = IF update.Lat # 0 /\ update.Lon # 0
                                      THEN update.Lat ELSE ac.Lat,
                            !.Lon   = IF update.Lat # 0 /\ update.Lon # 0
                                      THEN update.Lon ELSE ac.Lon,
                            !.Speed = IF update.Speed # 0
                                      THEN update.Speed ELSE ac.Speed,
                            !.Track = IF update.Track # 0
                                      THEN update.Track ELSE ac.Track]]

\* ------------------------------------------------------------------------
\* Projection and rendering (renderMapViewport)
\* ------------------------------------------------------------------------
\* A display cell: the style it was rendered with and its character.
Cell(style, ch) == <<style, ch>>

\* the unstyled " " every cell of a new grid holds
Blank == Cell("", " ")

mapGlyph == Cell("map", ".")

airportGlyph == Cell("airport", "*")

\* the aeroplane character of planeStyle, written "^" here
planeGlyph == Cell("plane", "^")

\* a guard that moves the maximum of a degenerate axis below the minimum
nudgeDown(vb) ==
    [vb EXCEPT !.MaxX = IF vb.MaxX = vb.MinX THEN QSub(vb.MaxX, epsilon)
                        ELSE vb.MaxX,
               !.MaxY = IF vb.MaxY = vb.MinY THEN QSub(vb.MaxY, epsilon)
                        ELSE vb.MaxY]

\* project's guard against a division by zero: the maximum of a degenerate
\* axis is nudged in place
nudge(vb) ==
    [vb EXCEPT !.MaxX = IF vb.MaxX = vb.MinX THEN QAdd(vb.MaxX, epsilon)
                        ELSE vb.MaxX,
               !.MaxY = IF vb.MaxY = vb.MinY THEN QAdd(vb.MaxY, epsilon)
                        ELSE vb.MaxY]

\* the rows counted from the bottom edge: the latitude axis not flipped
scaleUnflipped(vb, lon, lat, viewWidth, viewHeight) ==
    [vb |-> vb,
     x  |-> QTrunc(QDiv(QMul(QDiv(QSub(lon, vb.MinX), QSub(vb.MaxX, vb.MinX)),
                             QInt(viewWidth)),
                        charAspect)),
     y  |-> QTrunc(QMul(QDiv(QSub(lat, vb.MinY), QSub(vb.MaxY, vb.MinY)),
                        QInt(viewHeight)))]

\* project's normalisation and scaling, on the nudged bounds
scale(vb, lon, lat, viewWidth, viewHeight) ==
    [vb |-> vb,
     x  |-> QTrunc(QDiv(QMul(QDiv(QSub(lon, vb.MinX), QSub(vb.MaxX, vb.MinX)),
                             QInt(viewWidth)),
                        charAspect)),
     y  |-> QTrunc(QMul(QDiv(QSub(vb.MaxY, lat), QSub(vb.MaxY, vb.MinY)),
                        QInt(viewHeight)))]

\* project: the receiver's viewBounds after the call and the terminal
\* coordinates
project(vb, lon, lat, viewWidth, viewHeight) ==
    scale(nudge(vb), lon, lat, viewWidth, viewHeight)

\* a bounds test that lets a point below the last row through
inGridAbove(x, y, viewWidth, viewHeight) ==
    x >= 0 /\ x < viewWidth /\ y >= 0

inGrid(x, y, viewWidth, viewHeight) ==
    x >= 0 /\ x < viewWidth /\ y >= 0 /\ y < viewHeight

\* what is left of a grid once an index expression on it was out of range:
\* the Go runtime panics and the render returns nothing
outOfRange == <<<<Cell("panic", "index out of range")>>>>

\* grid[y][x] exists
indexed(grid, x, y) ==
    /\ grid # outOfRange
    /\ y >= 0 /\ y < Len(grid)
    /\ x >= 0 /\ x < Len(grid[y + 1])

\* grid[y][x] = cell, with Go's 0-based indices
setCell(grid, x, y, cell) ==
    IF indexed(grid, x, y) THEN [grid EXCEPT ![y + 1][x + 1] = cell]
    ELSE outOfRange

blankGrid(viewWidth, viewHeight) ==
    [r \in 1..viewHeight |-> [c \in 1..viewWidth |-> Blank]]

\* a copy of the outer slice only: dest[i] = source[i], the rows are those of
\* source
copyGridShared(source) == [shared |-> source # NilGrid, rows |-> source]

\* copyGrid: rows holds the cells of dest; shared tells whether a write to
\* dest is a write to source too (never: every row is made anew and the
\* cells are copied into it)
copyGrid(source) ==
    [shared |-> FALSE,
     rows   |-> IF source = NilGrid THEN NilGrid
                ELSE IF Len(source[1]) = 0
                     THEN [r \in 1..Len(source) |-> << >>]
                     ELSE [r \in 1..Len(source) |->
                              [c \in 1..Len(source[1]) |-> source[r][c]]]]

\* the write of one projected point p of the static layer, if it is in bounds
plot(acc, p, glyph, viewWidth, viewHeight) ==
    [vb   |-> p.vb,
     grid |-> IF inGrid(p.x, p.y, viewWidth, viewHeight)
              THEN setCell(acc.grid, p.x, p.y, glyph) ELSE acc.grid]

\* the vertices i, i+3, ... of one polygon (i is 1-based here)
RECURSIVE drawVertices(_, _, _, _, _)
drawVertices(pts, i, acc, viewWidth, viewHeight) ==
    IF i > Len(pts) THEN acc
    ELSE drawVertices(pts, i + step,
             plot(acc,
                  project(acc.vb, pts[i].X, pts[i].Y, viewWidth, viewHeight),
                  mapGlyph, viewWidth, viewHeight),
             viewWidth, viewHeight)

culled(box, vb) ==
    \/ QLess(box.MaxX, vb.MinX)
    \/ QLess(vb.MaxX, box.MinX)
    \/ QLess(box.MaxY, vb.MinY)
    \/ QLess(vb.MaxY, box.MinY)

RECURSIVE drawPolygons(_, _, _, _, _)
drawPolygons(polys, k, acc, viewWidth, viewHeight) ==
    IF k > Len(polys) THEN acc
    ELSE drawPolygons(polys, k + 1,
             IF culled(polys[k].Box, acc.vb) THEN acc
             ELSE drawVertices(polys[k].Points, 1, acc, viewWidth, viewHeight),
             viewWidth, viewHeight)

RECURSIVE drawAirports(_, _, _, _, _)
drawAirports(pts, k, acc, viewWidth, viewHeight) ==
    IF k > Len(pts) THEN acc
    ELSE drawAirports(pts, k + 1,
             plot(acc,
                  project(acc.vb, pts[k].X, pts[k].Y, viewWidth, viewHeight),
                  airportGlyph, viewWidth, viewHeight),
             viewWidth, viewHeight)

\* a static layer drawn through the original extent, whatever the view is
buildStaticGridOfOriginal(m, viewWidth, viewHeight) ==
    drawAirports(airportPoints, 1,
        drawPolygons(mapPolygons, 1,
            [vb |-> m.originalBounds, grid |-> blankGrid(viewWidth, viewHeight)],
            viewWidth, viewHeight),
        viewWidth, viewHeight)

\* a static layer whose airports are drawn before its polygons
buildStaticGridAirportsFirst(m, viewWidth, viewHeight) ==
    drawPolygons(mapPolygons, 1,
        drawAirports(airportPoints, 1,
            [vb |-> m.viewBounds, grid |-> blankGrid(viewWidth, viewHeight)],
            viewWidth, viewHeight),
        viewWidth, viewHeight)

\* the rebuild of the static layer: [vb, grid]
buildStaticGrid(m, viewWidth, viewHeight) ==
    drawAirports(airportPoints, 1,
        drawPolygons(mapPolygons, 1,
            [vb |-> m.viewBounds, grid |-> blankGrid(viewWidth, viewHeight)],
            viewWidth, viewHeight),
        viewWidth, viewHeight)

needsRebuild(m, viewWidth, viewHeight) ==
    \/ m.needsRedraw
    \/ m.cachedStaticGrid = NilGrid
    \/ Len(m.cachedStaticGrid) # viewHeight
    \/ Len(m.cachedStaticGrid[1]) # viewWidth

\* Pass 1, in the order the Go map hands the aircraft out:
\* [vb, grid, pos], pos the planePositions map
NoPositions == [id \in {} |-> <<0, 0>>]

\* a test that lets every aircraft through to the icon pass
noFixNever(ac) == FALSE

\* the icon pass skips an aircraft whose position is the exact-zero pair
noFix(ac) == ac.Lat = 0 /\ ac.Lon = 0

\* the icon of one aircraft with a position, projected to p
plotIcon(acc, icao, p, viewWidth, viewHeight) ==
    IF inGrid(p.x, p.y, viewWidth, viewHeight)
    THEN [vb   |-> p.vb,
          grid |-> setCell(acc.grid, p.x, p.y, planeGlyph),
          pos  |-> [id \in DOMAIN acc.pos \cup {icao} |->
                       IF id = icao THEN <<p.x, p.y>> ELSE acc.pos[id]]]
    ELSE [acc EXCEPT !.vb = p.vb]

RECURSIVE drawIcons(_, _, _, _, _, _)
drawIcons(order, k, acc, table, viewWidth, viewHeight) ==
    IF k > Len(order) THEN acc
    ELSE drawIcons(order, k + 1,
             IF noFix(table[order[k]]) THEN acc
             ELSE plotIcon(acc, order[k],
                      project(acc.vb, QInt(table[order[k]].Lon),
                              QInt(table[order[k]].Lat), viewWidth, viewHeight),
                      viewWidth, viewHeight),
             table, viewWidth, viewHeight)

\* a label that writes its characters whatever the cell holds
RECURSIVE drawCallsignOver(_, _, _, _, _, _)
drawCallsignOver(runes, i, grid, x, yi, viewWidth) ==
    IF i > Len(runes) \/ x + (i - 1) >= viewWidth THEN grid
    ELSE drawCallsignOver(runes, i + 1,
             setCell(grid, x + (i - 1), yi, Cell("callsign", runes[i])),
             x, yi, viewWidth)

\* the characters of one callsign, from the icon's column rightwards
RECURSIVE drawCallsign(_, _, _, _, _, _)
drawCallsign(runes, i, grid, x, yi, viewWidth) ==
    IF i > Len(runes) \/ x + (i - 1) >= viewWidth THEN grid
    ELSE drawCallsign(runes, i + 1,
             IF ~indexed(grid, x + (i - 1), yi) THEN outOfRange
             ELSE IF grid[yi + 1][x + (i - 1) + 1] = Blank
             THEN setCell(grid, x + (i - 1), yi, Cell("callsign", runes[i]))
             ELSE grid,
             x, yi, viewWidth)

\* a label pass that writes the callsign on the icon's own row
RECURSIVE drawLabelsBeside(_, _, _, _, _, _, _)
drawLabelsBeside(order, k, grid, pos, table, viewWidth, viewHeight) ==
    IF k > Len(order) THEN grid
    ELSE drawLabelsBeside(order, k + 1,
             IF order[k] \notin DOMAIN pos THEN grid
             ELSE IF table[order[k]].Callsign = << >> THEN grid
             ELSE drawCallsign(table[order[k]].Callsign, 1, grid,
                               pos[order[k]][1], pos[order[k]][2],
                               viewWidth),
             pos, table, viewWidth, viewHeight)

\* Pass 2, in the order the Go map planePositions hands its entries out
RECURSIVE drawLabels(_, _, _, _, _, _, _)
drawLabels(order, k, grid, pos, table, viewWidth, viewHeight) ==
    IF k > Len(order) THEN grid
    ELSE drawLabels(order, k + 1,
             IF order[k] \notin DOMAIN pos THEN grid
             ELSE IF table[order[k]].Callsign = << >> THEN grid
             ELSE IF pos[order[k]][2] + 1 >= viewHeight THEN grid
             ELSE drawCallsign(table[order[k]].Callsign, 1, grid,
                               pos[order[k]][1], pos[order[k]][2] + 1,
                               viewWidth),
             pos, table, viewWidth, viewHeight)

\* the receiver once the static layer is in its cache
cacheStatic(m, built) ==
    [m EXCEPT !.viewBounds = built.vb, !.cachedStaticGrid = built.grid,
              !.needsRedraw = FALSE]

rebuildStatic(m, viewWidth, viewHeight) ==
    IF needsRebuild(m, viewWidth, viewHeight)
    THEN cacheStatic(m, buildStaticGrid(m, viewWidth, viewHeight))
    ELSE m

\* the result of a render: m the receiver after the call, static its cache
\* after the call (written by the aircraft passes if their grid shares its
\* rows with it), icons the grid after pass 1, grid the grid that is
\* flattened into the returned string
rendered(m, rebuilt, shared, icons, grid) ==
    [m       |-> [m EXCEPT !.viewBounds = icons.vb,
                           !.cachedStaticGrid = IF shared THEN grid ELSE @],
     rebuilt |-> rebuilt,
     static  |-> IF shared THEN grid ELSE m.cachedStaticGrid,
     pos     |-> icons.pos,
     icons   |-> icons.grid,
     grid    |-> grid]

\* pass 2 over the grid pass 1 left
labelled(m, rebuilt, shared, icons, labelOrder, table, viewWidth, viewHeight) ==
    rendered(m, rebuilt, shared, icons,
        drawLabels(labelOrder, 1, icons.grid, icons.pos, table, viewWidth,
                   viewHeight))

\* the two aircraft passes over copy, the copy taken of the cache of m
overlay(m, rebuilt, copy, table, viewWidth, viewHeight, iconOrder, labelOrder) ==
    labelled(m, rebuilt, copy.shared,
        drawIcons(iconOrder, 1,
            [vb |-> m.viewBounds, grid |-> copy.rows, pos |-> NoPositions],
            table, viewWidth, viewHeight),
        labelOrder, table, viewWidth, viewHeight)

composite(m, rebuilt, table, viewWidth, viewHeight, iconOrder, labelOrder) ==
    overlay(m, rebuilt, copyGrid(m.cachedStaticGrid), table, viewWidth,
            viewHeight, iconOrder, labelOrder)

render(m, table, viewWidth, viewHeight, iconOrder, labelOrder) ==
    composite(rebuildStatic(m, viewWidth, viewHeight),
              needsRebuild(m, viewWidth, viewHeight),
              table, viewWidth, viewHeight, iconOrder, labelOrder)

\* a render that takes the dimensions as they come
renderMapViewportUnclamped(m, table, width, height, iconOrder, labelOrder) ==
    render(m, table, width, height, iconOrder, labelOrder)

\* renderMapViewport on the model m, whose aircraft field points at table.
\* iconOrder and labelOrder are the iteration orders of the two Go maps
\* (labelOrder lists every id; those without a recorded icon are passed over).
renderMapViewport(m, table, width, height, iconOrder, labelOrder) ==
    render(m, table, IF width <= 0 THEN 1 ELSE width,
           IF height <= 0 THEN 1 ELSE height, iconOrder, labelOrder)

\* the table the map's aircraft field points at
tableOf(m, master) == IF m.aircraft = "master" THEN master ELSE EmptyTable

\* the size of the map's content area in Model.View: the style is
\* m.width - 2 by m.height - 2, less one border cell on each side
contentWidth(m) == IF (m.width - 2) - 2 <= 0 THEN 1 ELSE (m.width - 2) - 2

contentHeight(m) == IF (m.height - 2) - 2 <= 0 THEN 1 ELSE (m.height - 2) - 2

\* Model.View has a value receiver: it renders on a copy of the model
MapView(m, master, iconOrder, labelOrder) ==
    renderMapViewport(m, tableOf(m, master), contentWidth(m), contentHeight(m),
                      iconOrder, labelOrder)

\* every order in which the ids of S can be handed out
RECURSIVE Perms(_)
Perms(S) ==
    IF S = {} THEN {<< >>}
    ELSE UNION {{<<id>> \o rest : rest \in Perms(S \ {id})} : id \in S}

\* ------------------------------------------------------------------------
\* State
\* ------------------------------------------------------------------------
VARIABLES
    mapModel,              \* model.mapModel, a mapview.Model
    aircraft,              \* model.aircraft, the master table
    initialPositionFound,  \* model.initialPositionFound
    err,                   \* model.err # nil
    sbsScanner,            \* model.sbsScanner # nil
    running,               \* the program has not returned tea.Quit
    cmds,                  \* commands handed to the runtime and not yet
                           \* answered: connect, read (WaitForSbsLine), tick
    frame,                 \* what the View call on the current model returned
    staticLayer,           \* "none": no render has rasterized the static
                           \* layer yet; "fresh": one has, and no pan, zoom,
                           \* reset, recenter or resize came after it;
                           \* "stale": one has, and such a change came after
    lastMsg,               \* the message Update handled last
    prevMap,               \* mapModel before that message
    prevAircraft,          \* aircraft before that message
    used,                  \* inputs accepted so far, for the bounds
    probe,                 \* the last call of project: its arguments, the
                           \* viewBounds it leaves and the cell it returns
    inbox                  \* the message a command has returned to the
                           \* runtime and Update has not been called with

vars == <<mapModel, aircraft, initialPositionFound, err, sbsScanner, running,
          cmds, frame, staticLayer, lastMsg, prevMap, prevAircraft, used,
          probe, inbox>>

NoFrame ==
    [kind |-> "none", width |-> 0, height |-> 0,
     rebuilt |-> FALSE, layerBefore |-> "none",
     static |-> NilGrid, icons |-> NilGrid, grid |-> NilGrid,
     pos |-> NoPositions, iconOrder |-> << >>, labelOrder |-> << >>]

NoProbe == [called |-> FALSE]

NoLine == Line("", 0, "", "", << >>, NotNum, NotNum, NotNum, NotNum)

\* a message, with the feed line an AircraftUpdateMsg was decoded from
Msg(type, line, update, key) ==
    [type |-> type, line |-> line, update |-> update, key |-> key]

NoMsg == Msg("none", NoLine, NilAircraft, "")

\* the frame a render r of the map gives, asked for width x height cells
Frame(r, width, height, layerBefore, iconOrder, labelOrder) ==
    [kind |-> "map", width |-> width, height |-> height,
     rebuilt |-> r.rebuilt, layerBefore |-> layerBefore,
     static |-> r.static, icons |-> r.icons, grid |-> r.grid, pos |-> r.pos,
     iconOrder |-> iconOrder, labelOrder |-> labelOrder]

\* the static layer's state after a change of the view or of the size
Outdated(layer) == IF layer = "none" THEN "none" ELSE "stale"

Init ==
    /\ mapModel = New
    /\ aircraft = EmptyTable
    /\ initialPositionFound = FALSE
    /\ err = FALSE
    /\ sbsScanner = FALSE
    /\ running = TRUE
    /\ cmds = [connect |-> 1, read |-> 0, tick |-> 1]
    /\ frame = NoFrame
    /\ staticLayer = "none"
    /\ lastMsg = NoMsg
    /\ prevMap = New
    /\ prevAircraft = EmptyTable
    /\ used = [keys |-> 0, lines |-> 0, resizes |-> 0]
    /\ probe = NoProbe
    /\ inbox = NoMsg

\* ------------------------------------------------------------------------
\* model.Update, one action per message, and model.View
\* ------------------------------------------------------------------------
PanKeys == {"k", "up", "l", "down", "j", "left", ";", "right"}

ViewKeys == PanKeys \cup {"K", "L", "r"}

QuitKeys == {"q", "ctrl+c", "esc"}

\* what every Update leaves behind for the observer
Handled(msg) ==
    /\ lastMsg' = msg
    /\ prevMap' = mapModel
    /\ prevAircraft' = aircraft
    /\ frame' = NoFrame
    /\ probe' = NoProbe
    /\ inbox' = IF inbox = msg THEN NoMsg ELSE inbox

\* ConnectCmd answered with SbsConnectedMsg
SbsConnectedMsg ==
    /\ running /\ cmds.connect > 0
    /\ Handled(Msg("SbsConnectedMsg", NoLine, NilAircraft, ""))
    /\ IF err
       THEN /\ cmds' = [cmds EXCEPT !.connect = @ - 1]
            /\ UNCHANGED sbsScanner
       ELSE /\ sbsScanner' = TRUE
            /\ cmds' = [cmds EXCEPT !.connect = @ - 1, !.read = @ + 1]
    /\ UNCHANGED <<mapModel, aircraft, initialPositionFound, err, running,
                   staticLayer, used>>

\* ConnectCmd or WaitForSbsLine answered with SbsErrorMsg
SbsErrorMsg ==
    /\ running
    /\ \/ /\ cmds.connect > 0
          /\ cmds' = [cmds EXCEPT !.connect = @ - 1]
       \/ /\ cmds.read > 0
          /\ cmds' = [cmds EXCEPT !.read = @ - 1]
    /\ Handled(Msg("SbsErrorMsg", NoLine, NilAircraft, ""))
    /\ err' = TRUE
    /\ UNCHANGED <<mapModel, aircraft, initialPositionFound, sbsScanner,
                   running, staticLayer, used>>

\* the recenter fires on every fix, with no memory of an earlier one
autoZoomDueAlways(found, update) == ~update.nil /\ update.Lat # 0

\* !m.initialPositionFound && msg.Update != nil && msg.Update.Lat != 0
autoZoomDue(found, update) == ~found /\ ~update.nil /\ update.Lat # 0

\* a handler that asks for the next line only after a line that gave an update
AircraftUpdateMsgStalling(lines) ==
    \E line \in lines :
        LET update == parseSbsLine(line)
            auto   == autoZoomDue(initialPositionFound, update)
        IN  /\ running /\ cmds.read > 0
            /\ used.lines < MaxLines
            /\ used' = [used EXCEPT !.lines = @ + 1]
            /\ Handled(Msg("AircraftUpdateMsg", line, update, ""))
            /\ IF err
               THEN /\ cmds' = [cmds EXCEPT !.read = @ - 1]
                    /\ UNCHANGED <<mapModel, aircraft, initialPositionFound,
                                   staticLayer>>
               ELSE /\ aircraft' = mergeAircraft(aircraft, update)
                    /\ initialPositionFound' = (initialPositionFound \/ auto)
                    /\ mapModel' = IF auto
                                   THEN SetViewToLocation(mapModel,
                                            QInt(update.Lat), QInt(update.Lon))
                                   ELSE mapModel
                    /\ staticLayer' = IF auto THEN Outdated(staticLayer)
                                      ELSE staticLayer
                    /\ cmds' = IF update.nil
                               THEN [cmds EXCEPT !.read = @ - 1] ELSE cmds
            /\ UNCHANGED <<err, sbsScanner, running>>

\* WaitForSbsLine reads one of lines and answers with AircraftUpdateMsg
AircraftUpdateMsg(lines) ==
    \E line \in lines :
        LET update == parseSbsLine(line)
            auto   == autoZoomDue(initialPositionFound, update)
        IN  /\ running /\ cmds.read > 0
            /\ used.lines < MaxLines
            /\ used' = [used EXCEPT !.lines = @ + 1]
            /\ Handled(Msg("AircraftUpdateMsg", line, update, ""))
            /\ IF err
               THEN /\ cmds' = [cmds EXCEPT !.read = @ - 1]
                    /\ UNCHANGED <<mapModel, aircraft, initialPositionFound,
                                   staticLayer>>
               ELSE /\ aircraft' = mergeAircraft(aircraft, update)
                    /\ initialPositionFound' = (initialPositionFound \/ auto)
                    /\ mapModel' = IF auto
                                   THEN SetViewToLocation(mapModel,
                                            QInt(update.Lat), QInt(update.Lon))
                                   ELSE mapModel
                    /\ staticLayer' = IF auto THEN Outdated(staticLayer)
                                      ELSE staticLayer
                    /\ UNCHANGED cmds
            /\ UNCHANGED <<err, sbsScanner, running>>

\* a tick handler that does not ask for the next tick
TickMsgOnce ==
    /\ running /\ cmds.tick > 0
    /\ Handled(Msg("TickMsg", NoLine, NilAircraft, ""))
    /\ cmds' = [cmds EXCEPT !.tick = @ - 1]
    /\ IF err THEN UNCHANGED mapModel
       ELSE mapModel' = UpdateAircraft(mapModel)
    /\ UNCHANGED <<aircraft, initialPositionFound, err, sbsScanner, running,
                   staticLayer, used>>

\* TickCmd answered with TickMsg
TickMsg ==
    /\ running /\ cmds.tick > 0
    /\ Handled(Msg("TickMsg", NoLine, NilAircraft, ""))
    /\ IF err
       THEN /\ cmds' = [cmds EXCEPT !.tick = @ - 1]
            /\ UNCHANGED mapModel
       ELSE /\ mapModel' = UpdateAircraft(mapModel)
            /\ UNCHANGED cmds
    /\ UNCHANGED <<aircraft, initialPositionFound, err, sbsScanner, running,
                   staticLayer, used>>

\* a key
KeyMsg(keys) ==
    \E k \in keys :
        /\ running
        /\ used.keys < MaxKeys
        /\ used' = [used EXCEPT !.keys = @ + 1]
        /\ Handled(Msg("KeyMsg", NoLine, NilAircraft, k))
        /\ IF err \/ k \in QuitKeys
           THEN /\ running' = FALSE
                /\ UNCHANGED <<mapModel, staticLayer>>
           ELSE /\ mapModel' = MapUpdate(mapModel, Key(k))
                /\ staticLayer' = IF k \in ViewKeys
                                  THEN Outdated(staticLayer)
                                  ELSE staticLayer
                /\ UNCHANGED running
        /\ UNCHANGED <<aircraft, initialPositionFound, err, sbsScanner, cmds>>

\* a window-size message: the map gets the height less header and footer
WindowSizeMsg(sizes) ==
    \E size \in sizes :
        /\ running
        /\ used.resizes < MaxResizes
        /\ used' = [used EXCEPT !.resizes = @ + 1]
        /\ Handled(Msg("WindowSizeMsg", NoLine, NilAircraft, ""))
        /\ IF err
           THEN UNCHANGED <<mapModel, staticLayer>>
           ELSE /\ mapModel' = MapUpdate(mapModel,
                                   WindowSize(size[1], size[2] - 1 - 1))
                /\ staticLayer' = Outdated(staticLayer)
        /\ UNCHANGED <<aircraft, initialPositionFound, err, sbsScanner,
                       running, cmds>>

\* model.View: the error view, or the three panels; the map renders on a
\* copy of mapModel, so nothing the render assigns to its receiver is kept
View ==
    /\ running
    /\ IF err
       THEN /\ frame' = [NoFrame EXCEPT !.kind = "error"]
            /\ UNCHANGED staticLayer
       ELSE /\ \E iconOrder \in Perms(DOMAIN tableOf(mapModel, aircraft)) :
               \E labelOrder \in Perms(DOMAIN tableOf(mapModel, aircraft)) :
                  frame' = Frame(MapView(mapModel, aircraft, iconOrder,
                                         labelOrder),
                                 contentWidth(mapModel),
                                 contentHeight(mapModel),
                                 staticLayer, iconOrder, labelOrder)
            /\ staticLayer' = IF frame'.rebuilt THEN "fresh" ELSE staticLayer
    /\ UNCHANGED <<mapModel, aircraft, initialPositionFound, err, sbsScanner,
                   running, cmds, lastMsg, prevMap, prevAircraft, used,
                   probe, inbox>>

\* ------------------------------------------------------------------------
\* Inputs of the specifications
\* ------------------------------------------------------------------------
\* MSG,1 / MSG,3 / MSG,4 lines of the feed, with all 22 fields
CallsignLine(icao, callsign) ==
    Line("MSG", 22, "1", icao, callsign, NotNum, NotNum, NotNum, NotNum)

PositionLine(icao, lat, lon) ==
    Line("MSG", 22, "3", icao, << >>, NotNum, NotNum, lat, lon)

VelocityLine(icao, speed, track) ==
    Line("MSG", 22, "4", icao, << >>, speed, track, NotNum, NotNum)

\* Spec: the whole application
SpecLines ==
    {PositionLine("A1", Num(2), Num(-3)), CallsignLine("A1", <<"A", "B">>)}

SpecKeys == {"right", "L", "q"}

SpecSizes == {<<23, 10>>}

Next ==
    \/ SbsConnectedMsg
    \/ SbsErrorMsg
    \/ AircraftUpdateMsg(SpecLines)
    \/ TickMsg
    \/ KeyMsg(SpecKeys)
    \/ WindowSizeMsg(SpecSizes)
    \/ View

Spec == Init /\ [][Next]_vars

\* SpecView: the viewport under every kind of key and the automatic recenter
ViewLines == {PositionLine("A1", Num(2), Num(-3))}

ViewKeySet == {"up", "down", "left", "right", "K", "L", "r", "x"}

NextView ==
    \/ SbsConnectedMsg
    \/ AircraftUpdateMsg(ViewLines)
    \/ KeyMsg(ViewKeySet)

SpecView == Init /\ [][NextView]_vars

\* SpecCache: renders between changes of the view and of the size
CacheKeys == {"right", "K", "r"}

NextCache ==
    \/ SbsConnectedMsg
    \/ AircraftUpdateMsg(ViewLines)
    \/ KeyMsg(CacheKeys)
    \/ WindowSizeMsg(SpecSizes)
    \/ View

SpecCache == Init /\ [][NextCache]_vars

\* SpecFeed: the feed, the merge into the table and what the map shows of it
FeedLines ==
    {CallsignLine("A1", <<" ", "A", "B">>),
     PositionLine("A1", Num(2), Num(-3)),
     PositionLine("A1", Num(1), Num(0)),
     PositionLine("A1", Num(0), Num(-3)),
     PositionLine("A2", Num(3), NotNum),
     VelocityLine("A1", Num(5), Num(9)),
     VelocityLine("A1", Num(7), Num(0)),
     Line("MSG", 22, "8", "A1", << >>, NotNum, NotNum, NotNum, NotNum)}

NextFeed ==
    \/ SbsConnectedMsg
    \/ AircraftUpdateMsg(FeedLines)
    \/ TickMsg
    \/ View

SpecFeed == Init /\ [][NextFeed]_vars

\* SpecRender: renders of a map that holds a table of up to two aircraft,
\* after the window-size message and the first tick
RenderSizes == {<<23, 10>>, <<9, 10>>}

RenderCallsigns == {<< >>, <<"A", "B", "C", "D">>, <<"X", "Y">>}

\* (lat, lon) of a stored aircraft: none, or one of five fixes
RenderFixes ==
    {<<0, 0>>, <<3, -3>>, <<3, -2>>, <<3, -1>>, <<-2, -3>>, <<3, 6>>}

RenderAircraft(id) ==
    {Aircraft(id, cs, fix[1], fix[2], 0, 0) :
        cs \in RenderCallsigns, fix \in RenderFixes}

RenderTables ==
    {[id \in {"A1"} |-> a] : a \in RenderAircraft("A1")}
    \cup {[id \in {"A1", "A2"} |-> IF id = "A1" THEN a1 ELSE a2] :
            a1 \in {a \in RenderAircraft("A1") : a.Callsign # <<"X", "Y">>},
            a2 \in {a \in RenderAircraft("A2") :
                      a.Callsign # << >> /\ a.Lat \in {0, 3}}}

InitRender ==
    /\ \E size \in RenderSizes :
          mapModel = UpdateAircraft(
                         MapUpdate(New, WindowSize(size[1], size[2] - 1 - 1)))
    /\ aircraft \in RenderTables
    /\ initialPositionFound = (\E id \in DOMAIN aircraft : aircraft[id].Lat # 0)
    /\ err = FALSE
    /\ sbsScanner = TRUE
    /\ running = TRUE
    /\ cmds = [connect |-> 0, read |-> 1, tick |-> 1]
    /\ frame = NoFrame
    /\ staticLayer = "none"
    /\ lastMsg = Msg("TickMsg", NoLine, NilAircraft, "")
    /\ prevMap = mapModel
    /\ prevAircraft = aircraft
    /\ used = [keys |-> 0, lines |-> 0, resizes |-> 1]
    /\ probe = NoProbe
    /\ inbox = NoMsg

NextRender == View

SpecRender == InitRender /\ [][NextRender]_vars

\* renderMapViewport as a function of the dimensions it is asked for: windows
\* down to no cell at all, and the function called with any dimensions
GridDims == {-1, 0, 1, 5}

GridWindows == {<<0, 0>>, <<5, 4>>}

\* the window the program starts in
GridWindow == <<9, 10>>

GridTables ==
    {EmptyTable,
     [id \in {"A1"} |-> Aircraft(id, <<"A", "B">>, 4, -8, 0, 0)]}

\* one call m.renderMapViewport(width, height) on a copy of the map model
Render(dims) ==
    \E width \in dims, height \in dims :
        \E iconOrder \in Perms(DOMAIN tableOf(mapModel, aircraft)) :
           \E labelOrder \in Perms(DOMAIN tableOf(mapModel, aircraft)) :
              /\ running /\ ~err
              /\ frame' = Frame(renderMapViewport(mapModel,
                                     tableOf(mapModel, aircraft), width,
                                     height, iconOrder, labelOrder),
                                width, height, staticLayer, iconOrder,
                                labelOrder)
              /\ staticLayer' = IF frame'.rebuilt THEN "fresh"
                                ELSE staticLayer
              /\ UNCHANGED <<mapModel, aircraft, initialPositionFound, err,
                             sbsScanner, running, cmds, lastMsg, prevMap,
                             prevAircraft, used, probe,
                             inbox>>

InitGrid ==
    /\ mapModel = UpdateAircraft(
                      MapUpdate(New, WindowSize(GridWindow[1],
                                                GridWindow[2] - 1 - 1)))
    /\ aircraft \in GridTables
    /\ initialPositionFound = (\E id \in DOMAIN aircraft : aircraft[id].Lat # 0)
    /\ err = FALSE
    /\ sbsScanner = TRUE
    /\ running = TRUE
    /\ cmds = [connect |-> 0, read |-> 1, tick |-> 1]
    /\ frame = NoFrame
    /\ staticLayer = "none"
    /\ lastMsg = Msg("TickMsg", NoLine, NilAircraft, "")
    /\ prevMap = mapModel
    /\ prevAircraft = aircraft
    /\ used = [keys |-> 0, lines |-> 0, resizes |-> 0]
    /\ probe = NoProbe
    /\ inbox = NoMsg

NextGrid ==
    \/ WindowSizeMsg(GridWindows)
    \/ View
    \/ Render(GridDims)

SpecGrid == InitGrid /\ [][NextGrid]_vars

\* project as a function of its arguments: the map is loaded over one of
\* ProbeBounds (the last two are a map that is a single meridian and one
\* that is a single parallel), keys move the view, and project is applied to
\* one point for one grid size
ProbeBounds ==
    {loadMapData, Box(QInt(-10), QInt(-10), QInt(10), QInt(10)),
     Box(QInt(2), QInt(-4), QInt(2), QInt(4)),
     Box(QInt(-8), QInt(3), QInt(8), QInt(3))}

ProbeLons == {-11, -10, 0, 3, 10}

ProbeLats == {-10, 0, 3, 10, 11}

ProbeSizes == {<<10, 10>>, <<76, 19>>}

ProbeKeys == {"left", "K"}

\* mapview.New over map data whose bounding box is bounds
NewOver(bounds) ==
    [New EXCEPT !.originalBounds = bounds, !.viewBounds = bounds]

\* what one call of project shows: p is what project returns
Probed(vb, lon, lat, viewWidth, viewHeight, p) ==
    [called |-> TRUE, vb |-> vb, lon |-> lon, lat |-> lat,
     viewWidth |-> viewWidth, viewHeight |-> viewHeight,
     after |-> p.vb, x |-> p.x, y |-> p.y]

\* one call m.project(lon, lat, viewWidth, viewHeight) on the render's copy
\* of the map model
Project(lons, lats, sizes) ==
    \E lon \in lons, lat \in lats, size \in sizes :
        /\ running
        /\ probe' = Probed(mapModel.viewBounds, QInt(lon), QInt(lat),
                           size[1], size[2],
                           project(mapModel.viewBounds, QInt(lon), QInt(lat),
                                   size[1], size[2]))
        /\ UNCHANGED <<mapModel, aircraft, initialPositionFound, err,
                       sbsScanner, running, cmds, frame, staticLayer, lastMsg,
                       prevMap, prevAircraft, used, inbox>>

InitProject ==
    /\ \E bounds \in ProbeBounds : mapModel = NewOver(bounds)
    /\ aircraft = EmptyTable
    /\ initialPositionFound = FALSE
    /\ err = FALSE
    /\ sbsScanner = FALSE
    /\ running = TRUE
    /\ cmds = [connect |-> 1, read |-> 0, tick |-> 1]
    /\ frame = NoFrame
    /\ staticLayer = "none"
    /\ lastMsg = NoMsg
    /\ prevMap = mapModel
    /\ prevAircraft = EmptyTable
    /\ used = [keys |-> 0, lines |-> 0, resizes |-> 0]
    /\ probe = NoProbe
    /\ inbox = NoMsg

NextProject ==
    \/ KeyMsg(ProbeKeys)
    \/ Project(ProbeLons, ProbeLats, ProbeSizes)

SpecProject == InitProject /\ [][NextProject]_vars

\* SpecSession: every message of a session, on a feed of two aircraft
SessionLines ==
    {PositionLine("A1", Num(2), Num(-3)), CallsignLine("A1", <<"A", "B">>),
     PositionLine("A2", Num(3), Num(-1))}

SessionKeys == {"K", "q"}

NextSession ==
    \/ SbsConnectedMsg
    \/ SbsErrorMsg
    \/ AircraftUpdateMsg(SessionLines)
    \/ TickMsg
    \/ KeyMsg(SessionKeys)
    \/ WindowSizeMsg(SpecSizes)

SpecSession == Init /\ [][NextSession]_vars

\* SpecReader: the commands run off the event loop and hand their message to
\* the runtime, which calls Update with it later
ConnectCmd ==
    /\ running /\ cmds.connect > 0 /\ inbox = NoMsg
    /\ \/ inbox' = Msg("SbsConnectedMsg", NoLine, NilAircraft, "")
       \/ inbox' = Msg("SbsErrorMsg", NoLine, NilAircraft, "")
    /\ UNCHANGED <<mapModel, aircraft, initialPositionFound, err, sbsScanner,
                   running, cmds, frame, staticLayer, lastMsg, prevMap,
                   prevAircraft, used, probe>>

\* a reader that files the update in the table itself
WaitForSbsLineMerging(lines) ==
    /\ running /\ cmds.read > 0 /\ inbox = NoMsg
    /\ used.lines < MaxLines
    /\ \E line \in lines :
          /\ inbox' = Msg("AircraftUpdateMsg", line, parseSbsLine(line), "")
          /\ aircraft' = mergeAircraft(aircraft, parseSbsLine(line))
    /\ UNCHANGED <<mapModel, initialPositionFound, err, sbsScanner,
                   running, cmds, frame, staticLayer, lastMsg, prevMap,
                   prevAircraft, used, probe>>

\* the function WaitForSbsLine returns: it scans one of lines, or fails to,
\* and returns the message
WaitForSbsLine(lines) ==
    /\ running /\ cmds.read > 0 /\ inbox = NoMsg
    /\ used.lines < MaxLines
    /\ \/ \E line \in lines :
             inbox' = Msg("AircraftUpdateMsg", line, parseSbsLine(line), "")
       \/ inbox' = Msg("SbsErrorMsg", NoLine, NilAircraft, "")
    /\ UNCHANGED <<mapModel, aircraft, initialPositionFound, err, sbsScanner,
                   running, cmds, frame, staticLayer, lastMsg, prevMap,
                   prevAircraft, used, probe>>

\* the event loop calls model.Update with the message of the inbox
Update ==
    \/ inbox.type = "SbsConnectedMsg" /\ SbsConnectedMsg
    \/ inbox.type = "SbsErrorMsg" /\ SbsErrorMsg
    \/ inbox.type = "AircraftUpdateMsg" /\ AircraftUpdateMsg({inbox.line})

NextReader ==
    \/ ConnectCmd
    \/ WaitForSbsLine(FeedLines)
    \/ Update

SpecReader == Init /\ [][NextReader]_vars

\* ------------------------------------------------------------------------
\* C1
\* ------------------------------------------------------------------------
\* C1: a render that follows a render which built the static layer, with no
\* pan, zoom, reset, recenter or resize in between, does not rasterize the
\* geometry again.
C1_StaticLayerReused ==
    (frame.kind = "map" /\ frame.layerBefore = "fresh") => ~frame.rebuilt

\* ------------------------------------------------------------------------
\* C2
\* ------------------------------------------------------------------------
\* the cell a point projects to in the view vb
cellOf(p) == <<p.x, p.y>>

\* the rasterization of the geometry through vb, cell by cell: an airport's
\* glyph where an airport falls, else a polygon's where a sampled vertex of a
\* polygon in view falls, else blank
inView(vb) == {k \in 1..Len(mapPolygons) : ~culled(mapPolygons[k].Box, vb)}

sampled(pts) == {i \in 1..Len(pts) : (i - 1) % step = 0}

starCells(vb, w, h) ==
    {cellOf(project(vb, airportPoints[k].X, airportPoints[k].Y, w, h)) :
        k \in 1..Len(airportPoints)}

dotCells(vb, w, h) ==
    UNION {{cellOf(project(vb, mapPolygons[k].Points[i].X,
                           mapPolygons[k].Points[i].Y, w, h)) :
               i \in sampled(mapPolygons[k].Points)} : k \in inView(vb)}

rasterOf(stars, dots, w, h) ==
    [r \in 1..h |-> [c \in 1..w |->
        IF <<c - 1, r - 1>> \in stars THEN airportGlyph
        ELSE IF <<c - 1, r - 1>> \in dots THEN mapGlyph
        ELSE Blank]]

freshStatic(vb, w, h) == rasterOf(starCells(vb, w, h), dotCells(vb, w, h), w, h)

\* C2: the static layer a render composites over is the rasterization of the
\* polygons and airports through the current viewBounds at the current size
\* of the map's content area.
C2_StaticLayerIsFresh ==
    frame.kind = "map" =>
        frame.static = freshStatic(mapModel.viewBounds,
                                   contentWidth(mapModel),
                                   contentHeight(mapModel))

\* a render after an earlier render and a change of the view since, whose
\* static layer is not the one of the view before the change
C2_Witness ==
    /\ frame.kind = "map" /\ frame.layerBefore = "stale"
    /\ lastMsg.type \in {"KeyMsg", "AircraftUpdateMsg"}
    /\ mapModel.viewBounds # prevMap.viewBounds
    /\ frame.static # freshStatic(prevMap.viewBounds, contentWidth(mapModel),
                                  contentHeight(mapModel))

\* ------------------------------------------------------------------------
\* C3
\* ------------------------------------------------------------------------
boxWidth(b) == QSub(b.MaxX, b.MinX)

boxHeight(b) == QSub(b.MaxY, b.MinY)

\* the factor the key handed to zoom
factorOf(k) == IF k = "K" THEN QDiv(QInt(1), zoomFactor) ELSE zoomFactor

zoomKeyHandled ==
    /\ lastMsg.type = "KeyMsg" /\ lastMsg.key \in {"K", "L"}
    /\ running

wouldExceed(m, factor) ==
    \/ QLess(boxWidth(m.originalBounds), QMul(boxWidth(m.viewBounds), factor))
    \/ QLess(boxHeight(m.originalBounds), QMul(boxHeight(m.viewBounds), factor))

\* C3: a zoom whose new width or new height would exceed the original
\* extent's sets viewBounds to exactly originalBounds, wherever the view was,
\* and after any zoom the view is no wider and no taller than the original.
C3_ZoomClampsToOriginal ==
    zoomKeyHandled =>
        /\ wouldExceed(prevMap, factorOf(lastMsg.key))
              => mapModel.viewBounds = mapModel.originalBounds
        /\ QLeq(boxWidth(mapModel.viewBounds), boxWidth(mapModel.originalBounds))
        /\ QLeq(boxHeight(mapModel.viewBounds), boxHeight(mapModel.originalBounds))

\* a zoom-out of a panned view of full size was clamped to the original
C3_Witness ==
    /\ zoomKeyHandled /\ lastMsg.key = "L"
    /\ wouldExceed(prevMap, zoomFactor)
    /\ prevMap.viewBounds.MinX # prevMap.originalBounds.MinX
    /\ mapModel.viewBounds = mapModel.originalBounds

\* ------------------------------------------------------------------------
\* C4
\* ------------------------------------------------------------------------
\* zoom-outs after which the narrowest view of the model is back at the
\* original extent: one per zoom-in key, plus those that undo the 25.5x
RECURSIVE stepsToExceed(_, _)
stepsToExceed(w, n) ==
    IF QLess(QInt(1), w) THEN n ELSE stepsToExceed(QMul(w, zoomFactor), n + 1)

ZoomOutsToFull == MaxKeys + stepsToExceed(QInv(autoZoom), 0)

\* the map model after n zoom-out keys (a key that changes nothing ends the
\* run: every further one changes nothing either)
RECURSIVE zoomOuts(_, _)
zoomOuts(m, n) ==
    LET next == MapUpdate(m, Key("L"))
    IN  IF n = 0 \/ next = m THEN m ELSE zoomOuts(next, n - 1)

\* C4: from every reachable view, ZoomOutsToFull zoom-out keys in a row bring
\* viewBounds to exactly originalBounds, and one more leaves it there.
C4_ZoomOutConverges ==
    LET z == zoomOuts(mapModel, ZoomOutsToFull)
    IN  /\ z.viewBounds = mapModel.originalBounds
        /\ MapUpdate(z, Key("L")).viewBounds = mapModel.originalBounds

\* a zoom-out of the recentred view that is not yet back at the original
C4_Witness ==
    /\ initialPositionFound
    /\ zoomKeyHandled /\ lastMsg.key = "L"
    /\ mapModel.viewBounds # mapModel.originalBounds
    /\ zoomOuts(mapModel, ZoomOutsToFull - 1).viewBounds = mapModel.originalBounds

\* ------------------------------------------------------------------------
\* C5
\* ------------------------------------------------------------------------
\* the table the render of the current frame read
shown == tableOf(mapModel, aircraft)

isLabel(cell) == cell[1] = "callsign"

\* the label of id has a character for the cell in row r, column c (1-based)
covers(id, r, c) ==
    /\ id \in DOMAIN frame.pos
    /\ r - 1 = frame.pos[id][2] + 1
    /\ c - 1 >= frame.pos[id][1]
    /\ c - 1 - frame.pos[id][1] < Len(shown[id].Callsign)

charAt(id, c) == shown[id].Callsign[c - 1 - frame.pos[id][1] + 1]

\* the first label, in the order of the label pass, that covers the cell
firstCovering(r, c) ==
    frame.labelOrder[
        CHOOSE k \in 1..Len(frame.labelOrder) :
            /\ covers(frame.labelOrder[k], r, c)
            /\ \A j \in 1..(k - 1) : ~covers(frame.labelOrder[j], r, c)]

\* C5: a cell that held a glyph before the label pass holds the same glyph
\* after it, and a cell that holds a label character was blank before the
\* pass and holds the character of the first label that reached it.
C5_LabelsOnlyOnBlank ==
    frame.kind = "map" =>
        \A r \in 1..Len(frame.grid) : \A c \in 1..Len(frame.grid[r]) :
            /\ frame.icons[r][c] # Blank
                  => frame.grid[r][c] = frame.icons[r][c]
            /\ isLabel(frame.grid[r][c])
                  => /\ frame.icons[r][c] = Blank
                     /\ \E id \in DOMAIN frame.pos : covers(id, r, c)
                     /\ frame.grid[r][c]
                            = Cell("callsign", charAt(firstCovering(r, c), c))

\* a label that lost a character to a glyph and wrote another one
C5_Witness ==
    /\ frame.kind = "map"
    /\ \E id \in DOMAIN frame.pos :
          \E r \in 1..Len(frame.grid) : \E c1, c2 \in 1..Len(frame.grid[r]) :
              /\ covers(id, r, c1) /\ frame.icons[r][c1] # Blank
              /\ covers(id, r, c2) /\ isLabel(frame.grid[r][c2])

\* ------------------------------------------------------------------------
\* C6
\* ------------------------------------------------------------------------
\* C6: the grid of a render is the grid every order of the icon pass and of
\* the label pass gives.
C6_OrderIndependent ==
    frame.kind = "map" =>
        \A iconOrder \in Perms(DOMAIN shown) :
            \A labelOrder \in Perms(DOMAIN shown) :
                MapView(mapModel, aircraft, iconOrder, labelOrder).grid
                    = frame.grid

\* ------------------------------------------------------------------------
\* C7
\* ------------------------------------------------------------------------
hasFix(ac) == ac.Lat # 0 \/ ac.Lon # 0

\* the cell the aircraft ac projects to in the current view
cellOfAircraft(ac) ==
    cellOf(project(mapModel.viewBounds, QInt(ac.Lon), QInt(ac.Lat),
                   contentWidth(mapModel), contentHeight(mapModel)))

inFrame(cell) ==
    inGrid(cell[1], cell[2], contentWidth(mapModel), contentHeight(mapModel))

iconAt(cell) == frame.grid[cell[2] + 1][cell[1] + 1] = planeGlyph

merged ==
    /\ lastMsg.type = "AircraftUpdateMsg"
    /\ ~err
    /\ ~lastMsg.update.nil
    /\ lastMsg.update.ICAO \in DOMAIN prevAircraft

keptWhereEmpty(u, old, new) ==
    /\ u.Callsign = << >> => new.Callsign = old.Callsign
    /\ u.Lat = 0 => new.Lat = old.Lat
    /\ u.Lon = 0 => new.Lon = old.Lon
    /\ u.Speed = 0 => new.Speed = old.Speed
    /\ u.Track = 0 => new.Track = old.Track

\* C8: a merge leaves every stored field unchanged whose value in the update
\* is empty or zero, and no message takes a callsign or a position away from
\* an aircraft of the table.
C8_MergeDoesNotErase ==
    /\ merged => keptWhereEmpty(lastMsg.update,
                                prevAircraft[lastMsg.update.ICAO],
                                aircraft[lastMsg.update.ICAO])
    /\ \A id \in DOMAIN prevAircraft :
          /\ id \in DOMAIN aircraft
          /\ prevAircraft[id].Callsign # << >> => aircraft[id].Callsign # << >>
          /\ hasFix(prevAircraft[id]) => hasFix(aircraft[id])

\* a position update merged into an aircraft that has a callsign
C8_Witness ==
    /\ merged
    /\ lastMsg.update.Callsign = << >> /\ lastMsg.update.Lat # 0
    /\ prevAircraft[lastMsg.update.ICAO].Callsign # << >>
    /\ aircraft[lastMsg.update.ICAO].Callsign
           = prevAircraft[lastMsg.update.ICAO].Callsign

\* ------------------------------------------------------------------------
\* C9
\* ------------------------------------------------------------------------
takenWhereSet(u, new) ==
    /\ u.Callsign # << >> => new.Callsign = u.Callsign
    /\ u.Lat # 0 => new.Lat = u.Lat
    /\ u.Lon # 0 => new.Lon = u.Lon
    /\ u.Speed # 0 => new.Speed = u.Speed
    /\ u.Track # 0 => new.Track = u.Track

\* C9: a merge stores every field of the update that is non-empty or
\* non-zero, each on its own.
C9_MergeTakesEachField ==
    merged => takenWhereSet(lastMsg.update, aircraft[lastMsg.update.ICAO])

\* ------------------------------------------------------------------------
\* C10
\* ------------------------------------------------------------------------
\* the line is a position report whose lat/lon pair is not the exact-zero pair
carriesFix(line) ==
    /\ line.head = "MSG" /\ line.msgType = "3" /\ line.icao # ""
    /\ line.n >= 16
    /\ line.f14.ok /\ line.f15.ok
    /\ ~(line.f14.v = 0 /\ line.f15.v = 0)

\* C10: once an update with a valid fix has been handled, the recenter has
\* been issued.
C10_RecenterOnFirstFix ==
    (lastMsg.type = "AircraftUpdateMsg" /\ ~err /\ carriesFix(lastMsg.line))
        => initialPositionFound

\* ------------------------------------------------------------------------
\* C11
\* ------------------------------------------------------------------------
\* the step handles a line read from the feed
lineHandled == used'.lines # used.lines

\* C11: the automatic recenter happens at most once: initialPositionFound,
\* once set, stays set, and from then on no aircraft update changes
\* viewBounds, whatever keys were handled in between.
C11_RecenterAtMostOnce ==
    [][initialPositionFound =>
          /\ initialPositionFound'
          /\ lineHandled => mapModel'.viewBounds = mapModel.viewBounds]_vars

\* a fix handled after the recenter and after a key moved the view away from
\* it: the view is not the recentered one and the update left it alone
C11_Witness ==
    /\ lastMsg.type = "AircraftUpdateMsg" /\ ~err
    /\ ~lastMsg.update.nil /\ lastMsg.update.Lat # 0
    /\ initialPositionFound
    /\ used.keys > 0
    /\ mapModel.viewBounds = prevMap.viewBounds
    /\ mapModel.viewBounds
           # SetViewToLocation(prevMap, QInt(lastMsg.update.Lat),
                               QInt(lastMsg.update.Lon)).viewBounds

\* ------------------------------------------------------------------------
\* C12
\* ------------------------------------------------------------------------
\* the normalized coordinates of the projected point
nx == QDiv(QSub(probe.lon, probe.after.MinX),
           QSub(probe.after.MaxX, probe.after.MinX))

ny == QDiv(QSub(probe.after.MaxY, probe.lat),
           QSub(probe.after.MaxY, probe.after.MinY))

\* C12: project returns col = floor(nx * gridWidth / charAspect) and
\* row = floor(ny * gridHeight), also for negative nx or ny.
C12_ProjectFloors ==
    probe.called =>
        /\ probe.x = QFloor(QDiv(QMul(nx, QInt(probe.viewWidth)), charAspect))
        /\ probe.y = QFloor(QMul(ny, QInt(probe.viewHeight)))

\* ------------------------------------------------------------------------
\* C13
\* ------------------------------------------------------------------------
\* the cell of another point through the viewport and grid of the last call
other(lon, lat) ==
    project(probe.vb, lon, lat, probe.viewWidth, probe.viewHeight)

nonDegenerate(vb) == vb.MaxX # vb.MinX /\ vb.MaxY # vb.MinY

\* C13: for a fixed non-degenerate viewport and grid size, a larger longitude
\* never gives a smaller column and a larger latitude never gives a larger
\* row.
C13_ProjectMonotone ==
    (probe.called /\ nonDegenerate(probe.vb)) =>
        /\ \A lon \in ProbeLons :
              QLeq(probe.lon, QInt(lon)) =>
                  probe.x <= other(QInt(lon), probe.lat).x
        /\ \A lat \in ProbeLats :
              QLeq(probe.lat, QInt(lat)) =>
                  other(probe.lon, QInt(lat)).y <= probe.y

\* a point with another one east of it in a column further right, and
\* another one north of it in a row further up
C13_Witness ==
    /\ probe.called /\ nonDegenerate(probe.vb)
    /\ \E lon \in ProbeLons :
          /\ QLess(probe.lon, QInt(lon))
          /\ probe.x < other(QInt(lon), probe.lat).x
    /\ \E lat \in ProbeLats :
          /\ QLess(probe.lat, QInt(lat))
          /\ other(probe.lon, QInt(lat)).y < probe.y

\* ------------------------------------------------------------------------
\* C14
\* ------------------------------------------------------------------------
\* the call projects the point (lon, lat) through the viewport -10..10 on
\* both axes onto a grid of 10 x 10 cells
scenario(lon, lat) ==
    /\ probe.called
    /\ probe.vb = Box(QInt(-10), QInt(-10), QInt(10), QInt(10))
    /\ probe.viewWidth = 10 /\ probe.viewHeight = 10
    /\ probe.lon = QInt(lon) /\ probe.lat = QInt(lat)

\* C14: through that viewport and on that grid, (0,0) projects to the
\* center cell (col 5, row 5), (-10,10) to the top-left cell (0,0) and
\* (10,-10) to the bottom-right cell (col 9, row 9).
C14_ScenarioCells ==
    /\ scenario(0, 0) => probe.x = 5 /\ probe.y = 5
    /\ scenario(-10, 10) => probe.x = 0 /\ probe.y = 0
    /\ scenario(10, -10) => probe.x = 9 /\ probe.y = 9

\* ------------------------------------------------------------------------
\* C15
\* ------------------------------------------------------------------------
\* C15: a render asked for any dimensions, zero and negative ones included,
\* returns max(1, height) lines of max(1, width) cells each.
C15_GridShape ==
    frame.kind = "map" =>
        /\ Len(frame.grid) = Max(1, frame.height)
        /\ \A r \in 1..Len(frame.grid) :
              Len(frame.grid[r]) = Max(1, frame.width)

\* a render asked for no column, or for fewer than none, that gave a line
C15_Witness ==
    /\ frame.kind = "map"
    /\ frame.width <= 0 /\ frame.height < 0
    /\ Len(frame.grid) = 1 /\ Len(frame.grid[1]) = 1

\* ------------------------------------------------------------------------
\* C16
\* ------------------------------------------------------------------------
staticGlyphs == {Blank, mapGlyph, airportGlyph}

\* every cell of grid holds a blank, a polygon glyph or an airport glyph
onlyStatic(grid) ==
    \A r \in 1..Len(grid) : \A c \in 1..Len(grid[r]) :
        grid[r][c] \in staticGlyphs

clean(m) == [m EXCEPT !.needsRedraw = FALSE]

\* the message handled last is a pan, a zoom, a reset, a window size or the
\* update that recentered the view
viewChanged ==
    \/ lastMsg.type = "KeyMsg" /\ lastMsg.key \in ViewKeys /\ running
    \/ lastMsg.type = "WindowSizeMsg"
    \/ lastMsg.type = "AircraftUpdateMsg"
          /\ mapModel.viewBounds # prevMap.viewBounds

\* C17: pan, zoom (clamped or not), reset, SetViewToLocation and a
\* window-size message each hand back a model whose dirty flag is set, also
\* when the flag was clear before; after each of them the application's map
\* model has it set.
C17_ChangesSetDirty ==
    /\ \A k \in ViewKeys : MapUpdate(clean(mapModel), Key(k)).needsRedraw
    /\ \A size \in SpecSizes :
          MapUpdate(clean(mapModel),
                    WindowSize(size[1], size[2] - 1 - 1)).needsRedraw
    /\ \A line \in ViewLines :
          SetViewToLocation(clean(mapModel), QInt(parseSbsLine(line).Lat),
                            QInt(parseSbsLine(line).Lon)).needsRedraw
    /\ viewChanged => mapModel.needsRedraw

\* a window-size message handled after a render had built the static layer,
\* in a view where a zoom-out is not clamped
C17_Witness ==
    /\ lastMsg.type = "WindowSizeMsg" /\ staticLayer = "stale"
    /\ mapModel.needsRedraw
    /\ ~wouldExceed(mapModel, zoomFactor)

\* ------------------------------------------------------------------------
\* C18
\* ------------------------------------------------------------------------
\* the fractions of the view the pan key k moves it by
dxOf(k) ==
    IF k \in {"j", "left"} THEN QNeg(panFactor)
    ELSE IF k \in {";", "right"} THEN panFactor ELSE QZero

dyOf(k) ==
    IF k \in {"l", "down"} THEN QNeg(panFactor)
    ELSE IF k \in {"k", "up"} THEN panFactor ELSE QZero

\* vb moved n times by the fractions dx, dy of its own width and height
shifted(vb, dx, dy, n) ==
    Box(QAdd(vb.MinX, QMul(QInt(n), QMul(dx, boxWidth(vb)))),
        QAdd(vb.MinY, QMul(QInt(n), QMul(dy, boxHeight(vb)))),
        QAdd(vb.MaxX, QMul(QInt(n), QMul(dx, boxWidth(vb)))),
        QAdd(vb.MaxY, QMul(QInt(n), QMul(dy, boxHeight(vb)))))

\* m after n more presses of the pan key k
RECURSIVE pans(_, _, _)
pans(m, k, n) ==
    IF n = 0 THEN m
    ELSE LET next == MapUpdate(m, Key(k))
         IN  IF next.viewBounds = m.viewBounds THEN m
             ELSE pans(next, k, n - 1)

\* vb moved once more by the step
stepped(vb, stepX, stepY) ==
    Box(QAdd(vb.MinX, stepX), QAdd(vb.MinY, stepY),
        QAdd(vb.MaxX, stepX), QAdd(vb.MaxY, stepY))

\* the view of m is want, and each of the PanRun - n presses of k that
\* follow moves it by the step once more; the last view has the size and the
\* zoom level of the first
RECURSIVE panRun(_, _, _, _, _, _, _)
panRun(from, m, want, k, n, stepX, stepY) ==
    /\ m.viewBounds = want
    /\ IF n < PanRun
       THEN panRun(from, MapUpdate(m, Key(k)), stepped(want, stepX, stepY),
                   k, n + 1, stepX, stepY)
       ELSE /\ boxWidth(m.viewBounds) = boxWidth(from.viewBounds)
            /\ boxHeight(m.viewBounds) = boxHeight(from.viewBounds)
            /\ GetZoomLevel(m) = GetZoomLevel(from)

panKeyHandled ==
    lastMsg.type = "KeyMsg" /\ lastMsg.key \in PanKeys /\ running

\* C18: a pan adds dx times the current width to MinX and MaxX and dy times
\* the current height to MinY and MaxY, with no clamping, for any number of
\* consecutive pans and however far from the original extent; the width,
\* the height and the zoom level of the view stay as they were.
C18_PanShiftsUnclamped ==
    /\ panKeyHandled =>
          mapModel.viewBounds
              = shifted(prevMap.viewBounds, dxOf(lastMsg.key),
                        dyOf(lastMsg.key), 1)
    /\ panKeyHandled =>
          /\ boxWidth(mapModel.viewBounds) = boxWidth(prevMap.viewBounds)
          /\ boxHeight(mapModel.viewBounds) = boxHeight(prevMap.viewBounds)
          /\ GetZoomLevel(mapModel) = GetZoomLevel(prevMap)
    /\ \A k \in {"up", "down", "left", "right"} :
          panRun(mapModel, mapModel, mapModel.viewBounds, k, 0,
                 QMul(dxOf(k), boxWidth(mapModel.viewBounds)),
                 QMul(dyOf(k), boxHeight(mapModel.viewBounds)))

\* a pan handled in a view that another key had moved, from where PanRun
\* more pans to the right leave the view east of the whole original extent
C18_Witness ==
    /\ panKeyHandled
    /\ prevMap.viewBounds # prevMap.originalBounds
    /\ mapModel.viewBounds # prevMap.viewBounds
    /\ QLess(mapModel.originalBounds.MaxX,
             pans(mapModel, "right", PanRun).viewBounds.MinX)

\* ------------------------------------------------------------------------
\* C19
\* ------------------------------------------------------------------------
viewCenterX(b) == QDiv(QAdd(b.MinX, b.MaxX), QInt(2))

viewCenterY(b) == QDiv(QAdd(b.MinY, b.MaxY), QInt(2))

\* the zoom key handled last was not clamped
zoomedFreely ==
    zoomKeyHandled /\ ~wouldExceed(prevMap, factorOf(lastMsg.key))

\* C19: a zoom that is not clamped keeps the center of the view and
\* multiplies its width and its height by the factor.
C19_ZoomScalesAboutCenter ==
    zoomedFreely =>
        /\ viewCenterX(mapModel.viewBounds) = viewCenterX(prevMap.viewBounds)
        /\ viewCenterY(mapModel.viewBounds) = viewCenterY(prevMap.viewBounds)
        /\ boxWidth(mapModel.viewBounds)
              = QMul(boxWidth(prevMap.viewBounds), factorOf(lastMsg.key))
        /\ boxHeight(mapModel.viewBounds)
              = QMul(boxHeight(prevMap.viewBounds), factorOf(lastMsg.key))

\* a zoom-out that enlarged a view centered away from the center of the map
C19_Witness ==
    /\ zoomedFreely /\ lastMsg.key = "L"
    /\ QLess(boxWidth(prevMap.viewBounds), boxWidth(mapModel.viewBounds))
    /\ viewCenterX(mapModel.viewBounds) # viewCenterX(mapModel.originalBounds)

\* ------------------------------------------------------------------------
\* C20
\* ------------------------------------------------------------------------
\* (lat, lon) of the places the view is recentered on
RecenterTargets == {<<2, -3>>, <<0, 5>>, <<-40, 170>>}

\* vb is centered on (lon, lat), as wide as the original extent divided by
\* the zoom multiplier, and of the original extent's proportions
recenteredOn(vb, orig, lat, lon) ==
    /\ viewCenterX(vb) = lon /\ viewCenterY(vb) = lat
    /\ boxWidth(vb) = QDiv(boxWidth(orig), autoZoom)
    /\ QDiv(boxWidth(vb), boxHeight(vb))
          = QDiv(boxWidth(orig), boxHeight(orig))

\* the update handled last moved the view
recentered ==
    /\ lastMsg.type = "AircraftUpdateMsg" /\ ~lastMsg.update.nil
    /\ mapModel.viewBounds # prevMap.viewBounds

\* C20: SetViewToLocation(lat, lon) sets viewBounds to a rectangle centered
\* exactly on (lon, lat), as wide as the original extent divided by 25.5, and
\* with the width-to-height ratio of originalBounds, whatever the view was.
C20_RecenterRectangle ==
    /\ \A t \in RecenterTargets :
          recenteredOn(SetViewToLocation(mapModel, QInt(t[1]),
                                         QInt(t[2])).viewBounds,
                       mapModel.originalBounds, QInt(t[1]), QInt(t[2]))
    /\ recentered =>
          recenteredOn(mapModel.viewBounds, mapModel.originalBounds,
                       QInt(lastMsg.update.Lat), QInt(lastMsg.update.Lon))

\* the recenter on the first fix, of a view a zoom key had made smaller
C20_Witness ==
    /\ recentered
    /\ boxWidth(prevMap.viewBounds) # boxWidth(prevMap.originalBounds)
    /\ viewCenterX(mapModel.viewBounds) = QInt(lastMsg.update.Lon)
    /\ viewCenterY(mapModel.viewBounds) = QInt(lastMsg.update.Lat)

\* ------------------------------------------------------------------------
\* C21
\* ------------------------------------------------------------------------
\* the keys of the table, and some that are not in it
TableKeys == ViewKeys \cup {"x", "R", "h", "q", "enter"}

\* the view the table gives for the key k pressed on the map model m
tabled(m, k) ==
    IF k \in PanKeys THEN shifted(m.viewBounds, dxOf(k), dyOf(k), 1)
    ELSE IF k = "K" THEN zoom(m, QDiv(QInt(1), zoomFactor)).viewBounds
    ELSE IF k = "L" THEN zoom(m, zoomFactor).viewBounds
    ELSE IF k = "r" THEN m.originalBounds
    ELSE m.viewBounds

\* C21: each key has the tabled effect on the view, whatever keys came
\* before: up/k, down/l, left/j and right/; pan by panFactor in their
\* direction, K zooms by 1/zoomFactor, L by zoomFactor, r restores
\* originalBounds, and any other key leaves viewBounds as it is.
C21_KeyTable ==
    /\ \A k \in TableKeys :
          MapUpdate(mapModel, Key(k)).viewBounds = tabled(mapModel, k)
    /\ (lastMsg.type = "KeyMsg" /\ running) =>
          mapModel.viewBounds = tabled(prevMap, lastMsg.key)

\* a reset handled in a view that earlier keys had moved and made smaller
C21_Witness ==
    /\ lastMsg.type = "KeyMsg" /\ lastMsg.key = "r" /\ running
    /\ used.keys > 1
    /\ prevMap.viewBounds # prevMap.originalBounds
    /\ mapModel.viewBounds = mapModel.originalBounds

\* ------------------------------------------------------------------------
\* C22
\* ------------------------------------------------------------------------
\* (width, height) of the window-size messages handed to the map
ResizeTo == {<<23, 8>>, <<0, 0>>, <<120, 40>>}

\* after is before with the stored size replaced by width x height
resized(before, after, width, height) ==
    /\ after.width = width /\ after.height = height
    /\ after.viewBounds = before.viewBounds
    /\ after.originalBounds = before.originalBounds
    /\ after.aircraft = before.aircraft

\* C22: a window-size message stores its width and height in the map model
\* and changes neither viewBounds nor originalBounds nor the aircraft table;
\* the static layer of a render has the dimensions that the stored size
\* gives the content area.
C22_ResizeStoresSize ==
    /\ \A size \in ResizeTo :
          resized(mapModel,
                  MapUpdate(mapModel, WindowSize(size[1], size[2])),
                  size[1], size[2])
    /\ lastMsg.type = "WindowSizeMsg" =>
          /\ \E size \in SpecSizes :
                resized(prevMap, mapModel, size[1], size[2] - 1 - 1)
          /\ aircraft = prevAircraft
    /\ frame.kind = "map" =>
          /\ Len(frame.static) = contentHeight(mapModel)
          /\ \A r \in 1..Len(frame.static) :
                Len(frame.static[r]) = contentWidth(mapModel)

\* the first render after a resize that had followed a render of the
\* default size: its static layer has the new dimensions
C22_Witness ==
    /\ lastMsg.type = "WindowSizeMsg"
    /\ frame.kind = "map" /\ frame.layerBefore = "stale"
    /\ mapModel.width # defaultWidth
    /\ Len(frame.static) = (mapModel.height - 2) - 2
    /\ Len(frame.static[1]) = (mapModel.width - 2) - 2

\* ------------------------------------------------------------------------
\* C23
\* ------------------------------------------------------------------------
\* the step is a command handing its message to the runtime
posts == inbox = NoMsg /\ inbox' # NoMsg

\* the step is a call of Update with the message of the inbox
handles == inbox # NoMsg /\ inbox' = NoMsg

\* C23: the aircraft table, with every record filed in it, and the map model
\* with its viewport and static cache are written by the handlers of the
\* event loop only: a command returning a message (an update, a nil update
\* or an error) leaves them all as they are, also the record that an earlier
\* message carried and the table has stored.
C23_OnlyHandlersWrite ==
    [][/\ posts => (aircraft' = aircraft /\ mapModel' = mapModel)
       /\ (aircraft' # aircraft \/ mapModel' # mapModel) => handles]_vars

\* the reader has returned a second update for an aircraft whose record the
\* table took from the first one, and the record is as the first one left it
C23_Witness ==
    /\ inbox.type = "AircraftUpdateMsg" /\ ~inbox.update.nil
    /\ lastMsg.type = "AircraftUpdateMsg" /\ ~lastMsg.update.nil
    /\ inbox.update.ICAO = lastMsg.update.ICAO
    /\ inbox.update # lastMsg.update
    /\ lastMsg.update.ICAO \notin DOMAIN prevAircraft
    /\ aircraft[lastMsg.update.ICAO] = lastMsg.update

\* ------------------------------------------------------------------------
\* C24
\* ------------------------------------------------------------------------
\* C24: an aircraft id that is in the table is in it in every later state,
\* whatever message is handled (update, tick, key, resize, error), and every
\* entry is filed under the id of its own record.
C24_EntriesStay ==
    [][/\ DOMAIN aircraft \subseteq DOMAIN aircraft'
       /\ \A id \in DOMAIN aircraft' : aircraft'[id].ICAO = id]_vars

\* the feed has failed after two aircraft were filed, and both are there
C24_Witness ==
    /\ lastMsg.type = "SbsErrorMsg" /\ err
    /\ DOMAIN aircraft = {"A1", "A2"}
    /\ aircraft["A1"].ICAO = "A1" /\ aircraft["A2"].ICAO = "A2"

\* ------------------------------------------------------------------------
\* C25
\* ------------------------------------------------------------------------
\* C25: a call of project leaves the viewBounds of the model it is called on
\* as they were, for every point and grid size and in every view, a
\* degenerate one included.
C25_ProjectIsPure ==
    probe.called => probe.after = probe.vb

\* ------------------------------------------------------------------------
\* C26
\* ------------------------------------------------------------------------
\* the frame of the model m, with one aircraft in its table, on a grid of
\* DegenerateSize
DegenerateSize == <<5, 4>>

degenerateTable == [id \in {"A1"} |-> Aircraft(id, <<"A", "B">>, 3, 2, 0, 0)]

degenerateFrame(m) ==
    renderMapViewport(m, degenerateTable, DegenerateSize[1],
                      DegenerateSize[2], <<"A1">>, <<"A1">>)

gridOf(grid, viewWidth, viewHeight) ==
    /\ Len(grid) = viewHeight
    /\ \A r \in 1..viewHeight : Len(grid[r]) = viewWidth

\* C26: on a viewport of zero width or zero height project divides by a
\* positive extent, the maximum of the degenerate axis being above its minimum
\* when the point is normalised, and returns a cell; a render of such a
\* viewport returns a grid of the requested size.
C26_DegenerateViewRenders ==
    /\ (probe.called /\ ~nonDegenerate(probe.vb)) =>
           /\ QLess(probe.after.MinX, probe.after.MaxX)
           /\ QLess(probe.after.MinY, probe.after.MaxY)
           /\ probe.x \in Int /\ probe.y \in Int
    /\ ~nonDegenerate(mapModel.viewBounds) =>
           gridOf(degenerateFrame(mapModel).grid, DegenerateSize[1],
                  DegenerateSize[2])

\* a point on the parallel of a map of zero height, projected after a zoom in
C26_Witness ==
    /\ probe.called
    /\ probe.vb.MaxY = probe.vb.MinY
    /\ probe.vb.MaxX # probe.vb.MinX
    /\ probe.vb # mapModel.originalBounds
    /\ probe.lat = probe.vb.MinY
    /\ probe.y = probe.viewHeight

\* ------------------------------------------------------------------------
\* C27
\* ------------------------------------------------------------------------
\* C27: no pass of a render indexes the grid outside 0 <= col < width,
\* 0 <= row < height: the static layer, the grid after the icon pass and the
\* grid after the label pass of every frame are grids of the clamped size,
\* none of them what an index out of range leaves.
C27_WritesInsideGrid ==
    frame.kind = "map" =>
        \A grid \in {frame.static, frame.icons, frame.grid} :
            /\ grid # outOfRange
            /\ gridOf(grid, Max(frame.width, 1), Max(frame.height, 1))

\* a frame five cells wide: the last vertex of the coast projects to the row
\* below the grid and is not drawn, A2 is drawn in the first row and of its
\* label the first three characters are written and the fourth is dropped,
\* A1 is drawn in the last row and has no label
C27_Witness ==
    /\ frame.kind = "map"
    /\ frame.width = 5 /\ frame.height = 4
    /\ project(mapModel.viewBounds, QInt(8), QInt(-4), 5, 4).y = 4
    /\ DOMAIN frame.pos = {"A1", "A2"}
    /\ frame.pos["A2"] = <<2, 0>>
    /\ aircraft["A2"].Callsign = <<"A", "B", "C", "D">>
    /\ frame.grid[2][5] = Cell("callsign", "C")
    /\ frame.pos["A1"][2] = 3
    /\ aircraft["A1"].Callsign # << >>
    /\ frame.grid # outOfRange

\* ------------------------------------------------------------------------
\* C28
\* ------------------------------------------------------------------------
\* the cell the point pt has in the frame
frameCell(pt) ==
    project(mapModel.viewBounds, pt.X, pt.Y, frame.width, frame.height)

airportShown(pt) ==
    inGrid(frameCell(pt).x, frameCell(pt).y, frame.width, frame.height)

\* C28: in the static layer of every frame, the cell of each airport that
\* projects into the grid holds the airport glyph, whether or not a polygon
\* vertex was drawn into that cell.
C28_AirportsOnTop ==
    frame.kind = "map" =>
        \A k \in 1..Len(airportPoints) :
            airportShown(airportPoints[k]) =>
                frame.static[frameCell(airportPoints[k]).y + 1]
                            [frameCell(airportPoints[k]).x + 1] = airportGlyph

\* a frame of a moved view in which a drawn vertex of the coast and an
\* airport have the same cell
C28_Witness ==
    /\ frame.kind = "map"
    /\ mapModel.viewBounds # mapModel.originalBounds
    /\ \E k \in 1..Len(airportPoints) :
          /\ airportShown(airportPoints[k])
          /\ frameCell(mapPolygons[1].Points[1 + step]) = frameCell(airportPoints[k])
          /\ frame.static[frameCell(airportPoints[k]).y + 1]
                         [frameCell(airportPoints[k]).x + 1] = airportGlyph

\* ------------------------------------------------------------------------
\* C29
\* ------------------------------------------------------------------------
\* character i (0-based) of the callsign of id is the character of the cell
\* in row r, column c (1-based): the row below the icon, i columns right of it
labelOf(id, i, r, c) ==
    /\ r - 1 = frame.pos[id][2] + 1
    /\ c - 1 = frame.pos[id][1] + i
    /\ i < Len(shown[id].Callsign)
    /\ frame.grid[r][c] = Cell("callsign", shown[id].Callsign[i + 1])

\* C29: every cell with a callsign character is in the row directly below
\* the icon of an aircraft and holds character i of that aircraft's callsign
\* at column icon.col + i; every character of a callsign whose cell is inside
\* the grid and was blank after the icon pass is there; so a character at or
\* beyond the grid width is nowhere, and an aircraft with its icon on the last
\* row has no label.
C29_LabelPlacement ==
    frame.kind = "map" =>
        /\ \A r \in 1..Len(frame.grid) : \A c \in 1..Len(frame.grid[r]) :
               isLabel(frame.grid[r][c]) =>
                   \E id \in DOMAIN frame.pos : \E i \in 0..(c - 1) :
                       labelOf(id, i, r, c)
        /\ \A id \in DOMAIN frame.pos :
               \A i \in 0..(Len(shown[id].Callsign) - 1) :
                   (/\ frame.pos[id][2] + 1 < frame.height
                    /\ frame.pos[id][1] + i < frame.width
                    /\ frame.icons[frame.pos[id][2] + 2]
                                  [frame.pos[id][1] + i + 1] = Blank)
                   => isLabel(frame.grid[frame.pos[id][2] + 2]
                                        [frame.pos[id][1] + i + 1])

\* the number of cells of the frame that hold a callsign character
labelCells ==
    Cardinality({rc \in (1..frame.height) \X (1..frame.width) :
                    isLabel(frame.grid[rc[1]][rc[2]])})

\* two aircraft with a callsign of four characters: the label of the one
\* whose icon is two columns from the right edge has lost its last
\* character, the one whose icon is on the last row has no label, and the
\* frame holds no other label cell
C29_Witness ==
    /\ frame.kind = "map"
    /\ \E a, b \in DOMAIN frame.pos :
          /\ Len(shown[a].Callsign) = 4 /\ Len(shown[b].Callsign) = 4
          /\ frame.pos[a][1] + 3 = frame.width
          /\ \A i \in 0..2 :
                labelOf(a, i, frame.pos[a][2] + 2, frame.pos[a][1] + i + 1)
          /\ frame.pos[b][2] + 1 = frame.height
          /\ labelCells = 3

\* ------------------------------------------------------------------------
\* C30
\* ------------------------------------------------------------------------
viewWidthOf(m) == QSub(m.viewBounds.MaxX, m.viewBounds.MinX)

originalWidthOf(m) == QSub(m.originalBounds.MaxX, m.originalBounds.MinX)

\* C30: in every state GetZoomLevel returns the number whose product with
\* the view width is the original width if the view width is not zero, and
\* 1 if it is zero.
C30_ZoomLevel ==
    IF viewWidthOf(mapModel) = QZero
    THEN GetZoomLevel(mapModel) = QInt(1)
    ELSE QMul(GetZoomLevel(mapModel), viewWidthOf(mapModel))
             = originalWidthOf(mapModel)

\* a view of zero width whose height a zoom in has changed, and whose zoom
\* level is 1
C30_Witness ==
    /\ viewWidthOf(mapModel) = QZero
    /\ lastMsg.type = "KeyMsg" /\ lastMsg.key = "K"
    /\ mapModel.viewBounds # mapModel.originalBounds
    /\ GetZoomLevel(mapModel) = QInt(1)

\* ------------------------------------------------------------------------
\* C31
\* ------------------------------------------------------------------------
\* C31: the table the map renders is changed by the handling of a TickMsg
\* only: after any other message it is what it was before the message.
C31_TableChangesOnTick ==
    tableOf(mapModel, aircraft) # tableOf(prevMap, prevAircraft)
        => lastMsg.type = "TickMsg"

\* ------------------------------------------------------------------------
\* C32
\* ------------------------------------------------------------------------
\* C32: no feed read is outstanding before SbsConnectedMsg is handled; from
\* then on, while no error is set, exactly one is (running, or returned and
\* its message waiting for Update), whatever the lines read gave; at no time
\* are there two.
C32_OneReadOutstanding ==
    /\ cmds.read <= 1
    /\ (sbsScanner /\ ~err) => cmds.read = 1
    /\ ~sbsScanner => cmds.read = 0

\* a line that gave no update was handled, and the read started by its
\* handler has returned the next line
C32_Witness ==
    /\ lastMsg.type = "AircraftUpdateMsg"
    /\ lastMsg.update.nil
    /\ ~err
    /\ cmds.read = 1
    /\ inbox.type = "AircraftUpdateMsg"

\* ------------------------------------------------------------------------
\* C33
\* ------------------------------------------------------------------------
\* C33: while no error is set exactly one TickCmd is pending (its TickMsg not
\* yet handled), from Init on and after every message, whatever the number
\* of feed lines handled; there are never two.
C33_OneTickPending ==
    /\ cmds.tick <= 1
    /\ ~err => cmds.tick = 1

\* a tick handled after two feed lines and a key, with the next tick pending
C33_Witness ==
    /\ lastMsg.type = "TickMsg"
    /\ ~err /\ running
    /\ used.lines >= 2 /\ used.keys >= 1
    /\ DOMAIN aircraft = {"A1", "A2"}
    /\ mapModel.aircraft = "master"
    /\ cmds.tick = 1

\* ------------------------------------------------------------------------
\* C34
\* ------------------------------------------------------------------------
viewHeightOf(m) == QSub(m.viewBounds.MaxY, m.viewBounds.MinY)

originalHeightOf(m) == QSub(m.originalBounds.MaxY, m.originalBounds.MinY)

\* C34: in every state viewBounds has positive width and height, is no wider
\* and no taller than originalBounds, has the width-to-height ratio of
\* originalBounds (view width x original height = view height x original
\* width), and the zoom level is at least 1.
C34_ViewKeepsAspect ==
    /\ QLess(QZero, viewWidthOf(mapModel))
    /\ QLess(QZero, viewHeightOf(mapModel))
    /\ QLeq(viewWidthOf(mapModel), originalWidthOf(mapModel))
    /\ QLeq(viewHeightOf(mapModel), originalHeightOf(mapModel))
    /\ QMul(viewWidthOf(mapModel), originalHeightOf(mapModel))
           = QMul(viewHeightOf(mapModel), originalWidthOf(mapModel))
    /\ QLeq(QInt(1), GetZoomLevel(mapModel))

\* a view that was recentered on an aircraft, zoomed to another level and
\* then panned: it is narrower than the original extent
C34_Witness ==
    /\ initialPositionFound
    /\ lastMsg.type = "KeyMsg" /\ lastMsg.key \in PanKeys
    /\ used.keys >= 2
    /\ QLess(viewWidthOf(mapModel), originalWidthOf(mapModel))
    /\ mapModel.viewBounds # prevMap.viewBounds
    /\ GetZoomLevel(mapModel) # GetZoomLevel(SetViewToLocation(mapModel, QInt(2), QInt(-3)))

\* ------------------------------------------------------------------------
\* SpecCull: the view is recentered on an aircraft next to the small polygon
\* or next to an airport and zoomed, and the map is rendered
\* ------------------------------------------------------------------------
CullLines ==
    {PositionLine("A1", Num(2), Num(1)), PositionLine("A1", Num(1), Num(-4))}

CullKeys == {"K", "L", "left"}

NextCull ==
    \/ SbsConnectedMsg
    \/ AircraftUpdateMsg(CullLines)
    \/ TickMsg
    \/ KeyMsg(CullKeys)
    \/ View

SpecCull == Init /\ [][NextCull]_vars

\* ------------------------------------------------------------------------
\* C35
\* ------------------------------------------------------------------------
\* the polygon pass with no cull: the sampled vertices of every polygon are
\* projected and clipped
RECURSIVE drawEveryPolygon(_, _, _, _, _)
drawEveryPolygon(polys, k, acc, viewWidth, viewHeight) ==
    IF k > Len(polys) THEN acc
    ELSE drawEveryPolygon(polys, k + 1,
             drawVertices(polys[k].Points, 1, acc, viewWidth, viewHeight),
             viewWidth, viewHeight)

\* the static layer of the view of m with no cull
unculled(m, viewWidth, viewHeight) ==
    drawAirports(airportPoints, 1,
        drawEveryPolygon(mapPolygons, 1,
            [vb |-> m.viewBounds, grid |-> blankGrid(viewWidth, viewHeight)],
            viewWidth, viewHeight),
        viewWidth, viewHeight).grid

\* C35: the static layer of every frame, built with the bounding-box cull,
\* equals the static layer of the same view and grid size built with no cull.
C35_CullIsOptimisation ==
    frame.kind = "map" =>
        frame.static = unculled(mapModel, frame.width, frame.height)

\* ------------------------------------------------------------------------
\* C36
\* ------------------------------------------------------------------------
\* the point (lon, lat) lies in the rectangle vb, edges included
insideView(vb, lon, lat) ==
    /\ QLeq(vb.MinX, lon) /\ QLeq(lon, vb.MaxX)
    /\ QLeq(vb.MinY, lat) /\ QLeq(lat, vb.MaxY)

\* C36: in every frame, each airport and each sampled vertex of a polygon
\* that passed the cull whose cell is in the grid, and each aircraft whose
\* icon was written, lies inside viewBounds.
C36_OnlyPointsInView ==
    frame.kind = "map" =>
        /\ \A k \in 1..Len(airportPoints) :
               airportShown(airportPoints[k]) =>
                   insideView(mapModel.viewBounds, airportPoints[k].X,
                          airportPoints[k].Y)
        /\ \A k \in 1..Len(mapPolygons) :
               \A i \in {j \in 1..Len(mapPolygons[k].Points) :
                             (j - 1) % step = 0} :
                   (/\ ~culled(mapPolygons[k].Box, mapModel.viewBounds)
                    /\ airportShown(mapPolygons[k].Points[i]))
                   => insideView(mapModel.viewBounds, mapPolygons[k].Points[i].X,
                             mapPolygons[k].Points[i].Y)
        /\ \A id \in DOMAIN frame.pos :
               insideView(mapModel.viewBounds, QInt(shown[id].Lon),
                      QInt(shown[id].Lat))
====
